---- MODULE Spec2Model ----
(***************************************************************************)
(* Model of the Sheets <-> Notion reconciliation engine                     *)
(* (src/sync/sync_engine.py, src/sync/sheets_wrapper.py,                    *)
(* src/sync/notion_wrapper.py).                                             *)
(*                                                                          *)
(* Python strings are sequences of one-character strings, so that           *)
(* str.strip(), string comparison and sorted() are computed and not         *)
(* assumed.  A Python value is a record [kind, text]: kind is "none",       *)
(* "int" or "str" and text is what str(value) returns.                      *)
(***************************************************************************)
EXTENDS Integers, Sequences, FiniteSets, TLC

VARIABLES
    worksheet,          \* data worksheet: sequence of rows, header -> cell text
    meta_sheet,         \* _SyncMeta worksheet: sequence of meta rows
    pages,              \* Notion database: sequence of pages
    nclock,             \* Notion's clock, source of last_edited_time
    direction,          \* run(direction=...)
    dry_run,            \* run(dry_run=...)
    conflict_strategy,  \* cfg.sync.conflict_strategy
    pc,                 \* position of SyncEngine.run
    idx,                \* position in the list the current loop iterates
    sheets_by_key,      \* run's local: index of the Sheets snapshot
    notion_by_key,      \* run's local: index of the Notion snapshot
    meta_map,           \* run's local: load_meta() result
    diff,               \* run's local: DiffResult
    summary,            \* run's local: summary dict
    ended,              \* how the earlier calls of run ended, oldest first
    hash_rows,          \* the dicts handed to compute_row_hash, as item lists
    hash_digests,       \* the digests compute_row_hash returned for them
    env,                \* Task2's settings read from the environment
    time,               \* time.time(), in milliseconds
    _last,              \* _rate._last
    caller,             \* the function whose remote calls are followed
    cpc,                \* position of that function
    totals,             \* what sum_views_in_child gave for each tracker row
    wrapper,            \* the retrying call under way
    attempt,            \* its loop variable
    wpc,                \* its position
    result,             \* how it came back to its caller
    rand,               \* the last random.random(), in thousandths
    delay,              \* the last _backoff_delay(attempt)
    log,                \* the waits, remote invocations and sleeps so far
    edited,             \* records an outside editor changed during a run
    reports,            \* what each earlier call of run reported and left behind
    ws_header,          \* row 1 of a worksheet, as the cells hold it
    ensured,            \* the ensure_headers / ensure_columns calls made
    batches,            \* the responses a Notion database query is served in
    lister,             \* the listing function under way
    lpc,                \* its position
    start_cursor,       \* its local: the cursor of the next query
    has_more,           \* list_all_pages' local
    results,            \* its local: the records gathered so far
    returned,           \* what the listing calls returned, with the remote then
    cell_value,         \* the tabular value handed to the checkbox codec
    checkbox,           \* the checkbox values the two codecs made of it
    ws_rows,            \* SheetsClient.ws: the data rows, row 2 first
    db_pages,           \* the pages of SyncService's Notion database
    wall,               \* datetime.now(timezone.utc), in milliseconds
    uuids,              \* the number of uuid4() calls made
    spc,                \* position of SyncService.two_way_sync
    sheet_rows,         \* its local: the rows fetched
    notion_rows,        \* its local: the plain rows of the pages listed
    updates_to_sheet,   \* its local
    appends_to_sheet,   \* its local
    upserts_to_notion,  \* its local
    synced              \* what the earlier calls of two_way_sync returned

vars == <<worksheet, meta_sheet, pages, nclock, direction, dry_run,
          conflict_strategy, pc, idx, sheets_by_key, notion_by_key,
          meta_map, diff, summary, ended, hash_rows, hash_digests,
          env, time, _last, caller, cpc, totals, wrapper, attempt, wpc,
          result, rand, delay, log, edited, reports, ws_header, ensured,
          batches, lister, lpc, start_cursor, has_more, results, returned,
          cell_value, checkbox, ws_rows, db_pages, wall, uuids, spc,
          sheet_rows, notion_rows, updates_to_sheet, appends_to_sheet,
          upserts_to_notion, synced>>

\* the state of src/Task2.py's rate limiter and retrying calls
wrapvars == <<env, time, _last, caller, cpc, totals, wrapper, attempt, wpc,
              result, rand, delay, log>>

\* the state of the worksheet and database clients of SyncService
ensurevars == <<ws_header, ensured>>
listvars == <<batches, lister, lpc, start_cursor, has_more, results, returned>>
codecvars == <<cell_value, checkbox>>
syncvars == <<ws_rows, db_pages, wall, uuids, spc, sheet_rows, notion_rows,
              updates_to_sheet, appends_to_sheet, upserts_to_notion, synced>>
clientvars == <<ensurevars, listvars, codecvars, syncvars>>

----------------------------------------------------------------------------
(* Bounds *)

\* revision markers (last_edited_time) present at the start are 1..MaxRev
MaxRev == 2

\* calls of run in one behaviour of the specification of consecutive runs
MaxRuns == 2

----------------------------------------------------------------------------
(* Python strings *)

EmptyStr == <<>>
NoneText == <<"N", "o", "n", "e">>

\* ord() of the characters that occur in the model
Ord(c) ==
    CASE c = " " -> 32
      [] c = "7" -> 55
      [] c = "N" -> 78
      [] c = "a" -> 97
      [] c = "b" -> 98
      [] c = "c" -> 99
      [] c = "e" -> 101
      [] c = "n" -> 110
      [] c = "o" -> 111
      [] c = "x" -> 120
      [] c = "y" -> 121

IsSpace(c) == c = " "
IsDigit(c) == c = "7"

RECURSIVE LStrip(_)
LStrip(s) ==
    IF s = <<>> THEN <<>>
    ELSE IF IsSpace(Head(s)) THEN LStrip(Tail(s)) ELSE s

RECURSIVE RStrip(_)
RStrip(s) ==
    IF s = <<>> THEN <<>>
    ELSE IF IsSpace(s[Len(s)]) THEN RStrip(SubSeq(s, 1, Len(s) - 1)) ELSE s

\* str.strip()
Strip(s) == RStrip(LStrip(s))

\* Python's < on strings: lexicographic on code points
RECURSIVE StrLess(_, _)
StrLess(s, t) ==
    IF t = <<>> THEN FALSE
    ELSE IF s = <<>> THEN TRUE
    ELSE IF Ord(Head(s)) < Ord(Head(t)) THEN TRUE
    ELSE IF Ord(Head(s)) > Ord(Head(t)) THEN FALSE
    ELSE StrLess(Tail(s), Tail(t))

\* sorted(keys) for a set of strings
RECURSIVE sorted(_)
sorted(S) ==
    IF S = {} THEN <<>>
    ELSE LET m == CHOOSE x \in S : \A y \in S \ {x} : StrLess(x, y)
         IN  <<m>> \o sorted(S \ {m})

\* the elements of a sequence
Range(s) == {s[i] : i \in DOMAIN s}

----------------------------------------------------------------------------
(* Python values *)

None == [kind |-> "none", text |-> NoneText]
PyStr(t) == [kind |-> "str", text |-> t]
PyInt(t) == [kind |-> "int", text |-> t]

\* str(value)
str(v) == v.text

\* truthiness of None / str / int (the model has no integer 0)
Truthy(v) == v.kind # "none" /\ v.text # EmptyStr

\* gspread numericise: a cell whose text is a number is read as an int
IsNumeric(t) == Strip(t) # <<>> /\ \A i \in DOMAIN Strip(t) : IsDigit(Strip(t)[i])
numericise(t) == IF IsNumeric(t) THEN PyInt(Strip(t)) ELSE PyStr(t)

\* the text a cell holds after a value is written to it (None blanks it)
CellText(v) == IF v.kind = "none" THEN EmptyStr ELSE v.text

----------------------------------------------------------------------------
(* Configuration: cfg.sync *)

\* cfg.sync.columns, in declared order
columns == << [sheet |-> "Key", notion |-> "Key", type |-> "title"],
              [sheet |-> "Val", notion |-> "Val", type |-> "select"] >>

\* cfg.sync.key
key_column == "Key"

\* header row of the data worksheet: the mapped columns and one unmapped
Headers == <<"Key", "Val", "Note">>

\* SyncEngine._headers
headers_of_mapping == [i \in DOMAIN columns |-> columns[i].sheet]

Directions == {"both", "to-sheets", "to-notion"}
Strategies == {"notion_wins", "sheets_wins", "fail"}

----------------------------------------------------------------------------
(* sync_engine.py: hashing *)

\* absent revision marker / page id / hash (None, or "" in the meta sheet)
NoRev == 0
NoPage == 0
NoHash == <<>>

_normalize_value_for_hash(value) ==
    IF value.kind = "none" THEN EmptyStr
    ELSE IF value.kind = "int" THEN str(value)
    ELSE Strip(str(value))

\* mutant: every entry of the dict is hashed, not the mapped columns only
compute_row_hash_all_entries(cols, row) ==
    [n \in DOMAIN row |-> <<n, _normalize_value_for_hash(row[n])>>]

\* sha256 has no collisions on the model's domain: the digest is modelled by
\* the joined text it is computed from, one <<column, normalized value>> per
\* mapped column in declared order.
compute_row_hash(cols, row) ==
    [i \in DOMAIN cols |->
        <<cols[i].sheet,
          _normalize_value_for_hash(
              IF cols[i].sheet \in DOMAIN row THEN row[cols[i].sheet] ELSE None)>>]

----------------------------------------------------------------------------
(* notion_wrapper.py: the field value codec *)

\* NotionWrapper.build_property_value: the stored property holds the text of
\* a title (None becomes "") and the option of a select (None and "" clear it)
build_property_value(typ, value) ==
    IF typ = "title" THEN (IF Truthy(value) THEN PyStr(str(value)) ELSE PyStr(EmptyStr))
    ELSE IF typ = "select" THEN (IF Truthy(value) THEN PyStr(str(value)) ELSE None)
    ELSE (IF Truthy(value) THEN PyStr(str(value)) ELSE PyStr(EmptyStr))

\* NotionWrapper.extract_property_plain
extract_property_plain(prop, typ) ==
    IF typ = "title" THEN PyStr(str(prop))
    ELSE IF typ = "select" THEN (IF prop.kind = "none" THEN None ELSE PyStr(str(prop)))
    ELSE PyStr(str(prop))

----------------------------------------------------------------------------
(* sheets_wrapper.py: reading *)

\* SheetsWrapper.get_all_rows: gspread get_all_records, one dict per row
get_all_rows(ws) ==
    [i \in DOMAIN ws |-> [h \in DOMAIN ws[i] |-> numericise(ws[i][h])]]

\* SheetsWrapper.load_meta: key -> MetaRecord, a later row replacing an
\* earlier one with the same key, rows without key skipped
RECURSIVE load_meta_rows(_, _)
load_meta_rows(rows, meta) ==
    IF rows = <<>> THEN meta
    ELSE LET r == Head(rows)
         IN  IF r.key = EmptyStr THEN load_meta_rows(Tail(rows), meta)
             ELSE load_meta_rows(Tail(rows),
                     [k \in (DOMAIN meta) \cup {r.key} |->
                         IF k = r.key THEN r ELSE meta[k]])

load_meta(ms) == load_meta_rows(ms, <<>>)

----------------------------------------------------------------------------
(* sync_engine.py: indices *)

\* SyncEngine._key_value_from_row
_key_value_from_row(row) ==
    IF key_column \notin DOMAIN row THEN EmptyStr
    ELSE IF row[key_column].kind = "none" THEN EmptyStr
    ELSE str(row[key_column])

\* SyncEngine._build_index_by_key
RECURSIVE _build_index_by_key(_, _)
_build_index_by_key(rows, index) ==
    IF rows = <<>> THEN index
    ELSE LET r == Head(rows)
             k == _key_value_from_row(r)
         IN  IF k = EmptyStr THEN _build_index_by_key(Tail(rows), index)
             ELSE _build_index_by_key(Tail(rows),
                     [x \in (DOMAIN index) \cup {k} |-> IF x = k THEN r ELSE index[x]])

\* SyncEngine._row_from_notion_page
_row_from_notion_page(p) ==
    [h \in Range(headers_of_mapping) |->
        LET col == CHOOSE c \in Range(columns) : c.sheet = h
        IN  extract_property_plain(p.properties[col.notion], col.type)]

\* a Notion row of the index: the mapped values and the page's provenance
NotionRow(row, p) ==
    [values |-> row, page_id |-> p.id, last_edited |-> p.last_edited_time]

\* SyncEngine._build_notion_index
RECURSIVE _build_notion_index(_, _)
_build_notion_index(ps, index) ==
    IF ps = <<>> THEN index
    ELSE LET p == Head(ps)
             row == _row_from_notion_page(p)
             k == _key_value_from_row(row)
         IN  IF k = EmptyStr THEN _build_notion_index(Tail(ps), index)
             ELSE _build_notion_index(Tail(ps),
                     [x \in (DOMAIN index) \cup {k} |->
                         IF x = k THEN NotionRow(row, p) ELSE index[x]])

----------------------------------------------------------------------------
(* sync_engine.py: SyncEngine._diff *)

EmptyDiff == [to_create_in_sheets |-> <<>>, to_create_in_notion |-> <<>>,
              to_update_sheets |-> <<>>, to_update_notion |-> <<>>,
              conflicts |-> <<>>]

\* mutant: the stored hash is never consulted
changed_in_sheets_always(m, current_hash) == TRUE

\* changed_in_sheets, for a key that has a meta record m (lines 146-149)
changed_in_sheets(m, current_hash) == m.sheets_row_hash # current_hash

\* mutant: an unchanged marker counts as an edit (>= for >)
changed_in_notion_geq(m, notion_last) ==
    IF notion_last # NoRev /\ m.notion_last_edited_time # NoRev
        THEN notion_last >= m.notion_last_edited_time
    ELSE IF m.notion_last_edited_time # NoRev THEN FALSE
    ELSE TRUE

\* changed_in_notion, for a key that has a meta record m (lines 147-153)
changed_in_notion(m, notion_last) ==
    IF notion_last # NoRev /\ m.notion_last_edited_time # NoRev
        THEN notion_last > m.notion_last_edited_time
    ELSE IF m.notion_last_edited_time # NoRev THEN FALSE
    ELSE TRUE

\* mutant: the values are compared without str()
values_equal_raw(sheet_row, notion_row) ==
    \A i \in DOMAIN columns :
        sheet_row[columns[i].sheet] = notion_row.values[columns[i].sheet]

\* values_equal: the field-by-field comparison (lines 159-163)
values_equal(sheet_row, notion_row) ==
    \A i \in DOMAIN columns :
        str(IF columns[i].sheet \in DOMAIN sheet_row
                THEN sheet_row[columns[i].sheet] ELSE PyStr(EmptyStr))
        = str(IF columns[i].sheet \in DOMAIN notion_row.values
                THEN notion_row.values[columns[i].sheet] ELSE PyStr(EmptyStr))

\* mutant: a key both sides changed is silently given to Notion's value
route_both_to_sheets(in_sheets, in_notion) ==
    IF in_sheets /\ ~in_notion THEN "to_update_notion"
    ELSE "to_update_sheets"

\* mutant: the fallback of the last branch flags a conflict
route_fallback_conflict(in_sheets, in_notion) ==
    IF in_sheets /\ ~in_notion THEN "to_update_notion"
    ELSE IF in_notion /\ ~in_sheets THEN "to_update_sheets"
    ELSE "conflicts"

\* the branch taken for a key whose values differ (lines 168-177)
route(in_sheets, in_notion) ==
    IF in_sheets /\ ~in_notion THEN "to_update_notion"
    ELSE IF in_notion /\ ~in_sheets THEN "to_update_sheets"
    ELSE IF in_notion /\ in_sheets THEN "conflicts"
    ELSE "to_update_sheets"

\* mutant: a key missing from Sheets that has a baseline is taken for deleted
diff_key_skip_known(k, sbk, nbk, meta) ==
    IF k \notin DOMAIN sbk /\ k \in DOMAIN nbk
        THEN (IF k \in DOMAIN meta THEN "none" ELSE "to_create_in_sheets")
    ELSE IF k \in DOMAIN sbk /\ k \notin DOMAIN nbk THEN "to_create_in_notion"
    ELSE IF k \notin DOMAIN sbk \/ k \notin DOMAIN nbk THEN "none"
    ELSE LET current_hash == compute_row_hash(columns, sbk[k])
             notion_last == nbk[k].last_edited
             in_sheets == IF k \in DOMAIN meta
                             THEN changed_in_sheets(meta[k], current_hash) ELSE TRUE
             in_notion == IF k \in DOMAIN meta
                             THEN changed_in_notion(meta[k], notion_last) ELSE TRUE
         IN  IF values_equal(sbk[k], nbk[k]) THEN "none"
             ELSE route(in_sheets, in_notion)

\* one iteration of the loop over sorted(keys): the list k is appended to,
\* or "none" when the loop continues without appending
diff_key(k, sbk, nbk, meta) ==
    IF k \notin DOMAIN sbk /\ k \in DOMAIN nbk THEN "to_create_in_sheets"
    ELSE IF k \in DOMAIN sbk /\ k \notin DOMAIN nbk THEN "to_create_in_notion"
    ELSE IF k \notin DOMAIN sbk \/ k \notin DOMAIN nbk THEN "none"
    ELSE LET current_hash == compute_row_hash(columns, sbk[k])
             notion_last == nbk[k].last_edited
             in_sheets == IF k \in DOMAIN meta
                             THEN changed_in_sheets(meta[k], current_hash) ELSE TRUE
             in_notion == IF k \in DOMAIN meta
                             THEN changed_in_notion(meta[k], notion_last) ELSE TRUE
         IN  IF values_equal(sbk[k], nbk[k]) THEN "none"
             ELSE route(in_sheets, in_notion)

RECURSIVE diff_loop(_, _, _, _, _)
diff_loop(ks, sbk, nbk, meta, acc) ==
    IF ks = <<>> THEN acc
    ELSE LET k == Head(ks)
             l == diff_key(k, sbk, nbk, meta)
         IN  diff_loop(Tail(ks), sbk, nbk, meta,
                 IF l = "none" THEN acc
                 ELSE [acc EXCEPT ![l] = Append(@, k)])

_diff(sbk, nbk, meta) ==
    diff_loop(sorted((DOMAIN sbk) \cup (DOMAIN nbk)), sbk, nbk, meta, EmptyDiff)

----------------------------------------------------------------------------
(* sheets_wrapper.py: writing *)

\* SheetsWrapper.find_row_number_by_key, as an index into the data rows
\* (0 for None): the first row whose stripped key cell equals the stripped key
find_row_number_by_key(ws, key_value) ==
    IF \E i \in DOMAIN ws : Strip(ws[i][key_column]) = Strip(key_value)
        THEN CHOOSE i \in DOMAIN ws :
                /\ Strip(ws[i][key_column]) = Strip(key_value)
                /\ \A j \in 1..(i - 1) : Strip(ws[j][key_column]) # Strip(key_value)
        ELSE 0

\* values_in_order of upsert_row: one cell per header, "" for a header the
\* written dict does not have
values_in_order(row_values_by_header) ==
    [h \in Range(Headers) |->
        IF h \in DOMAIN row_values_by_header
            THEN CellText(row_values_by_header[h]) ELSE EmptyStr]

\* SheetsWrapper.upsert_row
upsert_row(ws, key_value, row_values_by_header) ==
    LET row_num == find_row_number_by_key(ws, key_value)
    IN  IF row_num = 0
            THEN Append(ws, values_in_order(row_values_by_header))
            ELSE [ws EXCEPT ![row_num] = values_in_order(row_values_by_header)]

\* MetaRecord (last_synced_at, a wall-clock stamp nothing reads, is left out)
MetaRecord(k, page_id, page_last, new_hash) ==
    [key |-> k, notion_page_id |-> page_id,
     notion_last_edited_time |-> page_last, sheets_row_hash |-> new_hash]

\* the row of the meta sheet upsert_meta looks up (0 for None)
meta_row_num(ms, k) ==
    IF \E i \in DOMAIN ms : Strip(ms[i].key) = Strip(k)
        THEN CHOOSE i \in DOMAIN ms :
                /\ Strip(ms[i].key) = Strip(k)
                /\ \A j \in 1..(i - 1) : Strip(ms[j].key) # Strip(k)
        ELSE 0

\* SheetsWrapper.upsert_meta
upsert_meta(ms, rec) ==
    LET row_num == meta_row_num(ms, rec.key)
    IN  IF row_num = 0 THEN Append(ms, rec) ELSE [ms EXCEPT ![row_num] = rec]

----------------------------------------------------------------------------
(* notion_wrapper.py / Notion: writing *)

\* NotionWrapper.create_page: Notion gives the page a fresh id and stamps it
create_page(ps, properties, now) ==
    Append(ps, [id |-> Len(ps) + 1, last_edited_time |-> now,
                properties |-> properties])

\* NotionWrapper.update_page: the sent properties replace the page's
update_page(ps, page_id, properties, now) ==
    [i \in DOMAIN ps |->
        IF ps[i].id = page_id
            THEN [ps[i] EXCEPT !.properties =
                        [n \in DOMAIN @ |->
                            IF n \in DOMAIN properties THEN properties[n] ELSE @[n]],
                     !.last_edited_time = now]
            ELSE ps[i]]

\* SyncEngine._create_or_update_notion: the pages after the call
_create_or_update_notion(ps, page_id, properties, now) ==
    IF page_id # NoPage THEN update_page(ps, page_id, properties, now)
    ELSE create_page(ps, properties, now)

\* the page the call returns
returned_page(ps, page_id) ==
    IF page_id # NoPage THEN CHOOSE p \in Range(ps) : p.id = page_id
    ELSE ps[Len(ps)]

\* SyncEngine._build_notion_properties_from_sheet_row
_build_notion_properties_from_sheet_row(sheet_row) ==
    [n \in {columns[i].notion : i \in DOMAIN columns} |->
        LET col == CHOOSE c \in Range(columns) : c.notion = n
            value == IF col.sheet \in DOMAIN sheet_row THEN sheet_row[col.sheet] ELSE None
        IN  build_property_value(col.type,
                IF value.kind = "none" THEN None ELSE PyStr(str(value)))]

\* row_values of the writes to Sheets: {c.sheet: notion_row.get(c.sheet, "")}
row_values_from_notion(notion_row) ==
    [h \in Range(headers_of_mapping) |->
        IF h \in DOMAIN notion_row.values THEN notion_row.values[h] ELSE PyStr(EmptyStr)]

----------------------------------------------------------------------------
(* sync_engine.py: SyncEngine.run *)

EmptySummary == [created_in_sheets |-> 0, created_in_notion |-> 0,
                 updated_sheets |-> 0, updated_notion |-> 0, conflicts |-> <<>>]

\* the loops of run, in program order (lines 215-354)
Phases == <<"create_sheets", "create_notion", "update_sheets",
            "update_notion", "conflicts">>

\* the list a loop iterates
PhaseList(p) ==
    CASE p = "create_sheets" -> diff.to_create_in_sheets
      [] p = "create_notion" -> diff.to_create_in_notion
      [] p = "update_sheets" -> diff.to_update_sheets
      [] p = "update_notion" -> diff.to_update_notion
      [] p = "conflicts" -> diff.conflicts

\* mutant: the loops run whatever the direction
PhaseEnabled_any_direction(p) == p \in Range(Phases)

\* the direction test that guards a loop
PhaseEnabled(p) ==
    CASE p = "create_sheets" -> direction \in {"both", "to-sheets"}
      [] p = "create_notion" -> direction \in {"both", "to-notion"}
      [] p = "update_sheets" -> direction \in {"both", "to-sheets"}
      [] p = "update_notion" -> direction \in {"both", "to-notion"}
      [] p = "conflicts" -> TRUE

AfterPhase(p) ==
    IF p = "conflicts" THEN "done"
    ELSE Phases[(CHOOSE i \in DOMAIN Phases : Phases[i] = p) + 1]

InLoop(p) == pc = p /\ PhaseEnabled(p) /\ idx <= Len(PhaseList(p))

\* outcomes of one iteration that writes: every remote call succeeds, the
\* record write raises (upsert_row at once, _create_or_update_notion on each
\* of its 5 attempts), or the record is written and upsert_meta raises; run
\* has no handler, so a raised exception leaves it
SheetsOutcomes == {"ok", "row_fails", "meta_fails"}
NotionOutcomes == {"ok", "page_fails", "meta_fails"}

\* page id the updates of Notion use (lines 287, 337)
update_page_id(k) ==
    IF k \in DOMAIN meta_map /\ meta_map[k].notion_page_id # NoPage
        THEN meta_map[k].notion_page_id
    ELSE IF k \in DOMAIN notion_by_key THEN notion_by_key[k].page_id
    ELSE NoPage

\* write key k to Sheets from the Notion snapshot, then its meta record
\* (lines 222-236, 268-281, 315-329)
WriteSheets(k, outcome) ==
    LET notion_row == notion_by_key[k]
        row_values == row_values_from_notion(notion_row)
        new_hash == compute_row_hash(columns, row_values)
    IN  /\ worksheet' = IF outcome = "row_fails" THEN worksheet
                        ELSE upsert_row(worksheet, k, row_values)
        /\ meta_sheet' = IF outcome = "ok"
                            THEN upsert_meta(meta_sheet,
                                    MetaRecord(k, notion_row.page_id,
                                               notion_row.last_edited, new_hash))
                            ELSE meta_sheet
        /\ UNCHANGED <<pages, nclock>>

\* mutant: the meta record keeps the marker of the snapshot, as the writes
\* to Sheets do, and not the marker the write returned
WriteNotion_snapshot_marker(k, page_id, outcome) ==
    LET sheet_row == sheets_by_key[k]
        properties == _build_notion_properties_from_sheet_row(sheet_row)
        written == _create_or_update_notion(pages, page_id, properties, nclock + 1)
        page == returned_page(written, page_id)
        new_hash == compute_row_hash(columns, sheet_row)
        page_last == IF k \in DOMAIN notion_by_key
                        THEN notion_by_key[k].last_edited ELSE NoRev
    IN  /\ pages' = IF outcome = "page_fails" THEN pages ELSE written
        /\ nclock' = IF outcome = "page_fails" THEN nclock ELSE nclock + 1
        /\ meta_sheet' = IF outcome = "ok"
                            THEN upsert_meta(meta_sheet,
                                    MetaRecord(k, page.id, page_last, new_hash))
                            ELSE meta_sheet
        /\ UNCHANGED worksheet

\* write key k to Notion from the Sheets snapshot, then its meta record
\* (lines 245-258, 291-304, 337-351)
WriteNotion(k, page_id, outcome) ==
    LET sheet_row == sheets_by_key[k]
        properties == _build_notion_properties_from_sheet_row(sheet_row)
        written == _create_or_update_notion(pages, page_id, properties, nclock + 1)
        page == returned_page(written, page_id)
        new_hash == compute_row_hash(columns, sheet_row)
    IN  /\ pages' = IF outcome = "page_fails" THEN pages ELSE written
        /\ nclock' = IF outcome = "page_fails" THEN nclock ELSE nclock + 1
        /\ meta_sheet' = IF outcome = "ok"
                            THEN upsert_meta(meta_sheet,
                                    MetaRecord(k, page.id, page.last_edited_time, new_hash))
                            ELSE meta_sheet
        /\ UNCHANGED worksheet

\* the iteration ends: the counter is incremented and the loop goes on, or
\* the exception leaves run
EndIteration(outcome, counter) ==
    /\ pc' = IF outcome = "ok" THEN pc ELSE "raised"
    /\ idx' = IF outcome = "ok" THEN idx + 1 ELSE idx
    /\ summary' = IF outcome = "ok" THEN [summary EXCEPT ![counter] = @ + 1]
                  ELSE summary

\* mutant: a dry-run iteration goes on without counting
DryIteration_uncounted(counter) ==
    /\ summary' = summary
    /\ idx' = idx + 1
    /\ UNCHANGED <<worksheet, meta_sheet, pages, nclock, pc>>

\* a dry-run iteration only counts
DryIteration(counter) ==
    /\ summary' = [summary EXCEPT ![counter] = @ + 1]
    /\ idx' = idx + 1
    /\ UNCHANGED <<worksheet, meta_sheet, pages, nclock, pc>>

RunConst == <<direction, dry_run, conflict_strategy, sheets_by_key,
              notion_by_key, meta_map, diff, ended, hash_rows, hash_digests,
              wrapvars, edited, reports, clientvars>>

\* lines 199-213: load_state, the two indices, _diff, the empty summary
RunStart ==
    /\ pc = "start"
    /\ sheets_by_key' = _build_index_by_key(get_all_rows(worksheet), <<>>)
    /\ notion_by_key' = _build_notion_index(pages, <<>>)
    /\ meta_map' = load_meta(meta_sheet)
    /\ diff' = _diff(sheets_by_key', notion_by_key', meta_map')
    /\ summary' = EmptySummary
    /\ pc' = "create_sheets"
    /\ idx' = 1
    /\ UNCHANGED <<worksheet, meta_sheet, pages, nclock, direction, dry_run,
                   conflict_strategy, ended, hash_rows, hash_digests,
                   wrapvars, edited, reports, clientvars>>

\* mutant: a loop may be left while keys of its list remain
NextPhase_leaves_early ==
    /\ pc \in Range(Phases)
    /\ pc' = AfterPhase(pc)
    /\ idx' = 1
    /\ UNCHANGED <<worksheet, meta_sheet, pages, nclock, summary>>
    /\ UNCHANGED RunConst

\* a loop is skipped by the direction test or has no key left
NextPhase ==
    /\ pc \in Range(Phases)
    /\ ~InLoop(pc)
    /\ pc' = AfterPhase(pc)
    /\ idx' = 1
    /\ UNCHANGED <<worksheet, meta_sheet, pages, nclock, summary>>
    /\ UNCHANGED RunConst

\* lines 217-237
CreateInSheets ==
    /\ InLoop("create_sheets")
    /\ LET k == diff.to_create_in_sheets[idx]
       IN  IF dry_run THEN DryIteration("created_in_sheets")
           ELSE \E outcome \in SheetsOutcomes :
                    /\ WriteSheets(k, outcome)
                    /\ EndIteration(outcome, "created_in_sheets")
    /\ UNCHANGED RunConst

\* lines 240-259
CreateInNotion ==
    /\ InLoop("create_notion")
    /\ LET k == diff.to_create_in_notion[idx]
       IN  IF dry_run THEN DryIteration("created_in_notion")
           ELSE \E outcome \in NotionOutcomes :
                    /\ WriteNotion(k, NoPage, outcome)
                    /\ EndIteration(outcome, "created_in_notion")
    /\ UNCHANGED RunConst

\* mutant: under sheets_wins the updates of Sheets are counted, not written
UpdateSheets_unless_sheets_wins ==
    /\ InLoop("update_sheets")
    /\ LET k == diff.to_update_sheets[idx]
       IN  IF dry_run \/ conflict_strategy = "sheets_wins"
               THEN DryIteration("updated_sheets")
           ELSE \E outcome \in SheetsOutcomes :
                    /\ WriteSheets(k, outcome)
                    /\ EndIteration(outcome, "updated_sheets")
    /\ UNCHANGED RunConst

\* lines 263-282
UpdateSheets ==
    /\ InLoop("update_sheets")
    /\ LET k == diff.to_update_sheets[idx]
       IN  IF dry_run THEN DryIteration("updated_sheets")
           ELSE \E outcome \in SheetsOutcomes :
                    /\ WriteSheets(k, outcome)
                    /\ EndIteration(outcome, "updated_sheets")
    /\ UNCHANGED RunConst

\* lines 285-305
UpdateNotion ==
    /\ InLoop("update_notion")
    /\ LET k == diff.to_update_notion[idx]
       IN  IF dry_run THEN DryIteration("updated_notion")
           ELSE \E outcome \in NotionOutcomes :
                    /\ WriteNotion(k, update_page_id(k), outcome)
                    /\ EndIteration(outcome, "updated_notion")
    /\ UNCHANGED RunConst

\* a conflicted key is only reported (lines 309-311, 332, 354)
ReportConflict(k) ==
    /\ summary' = [summary EXCEPT !.conflicts = Append(@, k)]
    /\ idx' = idx + 1
    /\ UNCHANGED <<worksheet, meta_sheet, pages, nclock, pc>>

\* lines 308-354
Conflict ==
    /\ InLoop("conflicts")
    /\ LET k == diff.conflicts[idx]
       IN  IF conflict_strategy = "fail" THEN ReportConflict(k)
           ELSE IF conflict_strategy = "notion_wins"
               THEN IF direction \in {"both", "to-sheets"}
                       THEN IF dry_run THEN DryIteration("updated_sheets")
                            ELSE \E outcome \in SheetsOutcomes :
                                    /\ WriteSheets(k, outcome)
                                    /\ EndIteration(outcome, "updated_sheets")
                       ELSE ReportConflict(k)
           ELSE IF direction \in {"both", "to-notion"}
                       THEN IF dry_run THEN DryIteration("updated_notion")
                            ELSE \E outcome \in NotionOutcomes :
                                    /\ WriteNotion(k, update_page_id(k), outcome)
                                    /\ EndIteration(outcome, "updated_notion")
                       ELSE ReportConflict(k)
    /\ UNCHANGED RunConst

----------------------------------------------------------------------------
(* Initial states: the two stores and the baseline before a run *)

K_a == <<"a">>
K_sa == <<" ", "a">>
K_b == <<"b">>
T_x == <<"x">>
T_y == <<"y">>
T_7 == <<"7">>
T_n == <<"n">>

Revs == 1..MaxRev

\* what the stores hold for one key: the Sheets row (a), the Notion page (b)
\* and the meta row (m); m_hash is the Val text the stored hash was computed
\* from when m_has_hash
Absent == [a |-> FALSE, a_val |-> EmptyStr, b |-> FALSE, b_val |-> None,
           b_rev |-> NoRev, m |-> FALSE, m_has_hash |-> FALSE,
           m_hash |-> EmptyStr, m_rev |-> NoRev]

WithA(c, t) == [c EXCEPT !.a = TRUE, !.a_val = t]
WithB(c, v, r) == [c EXCEPT !.b = TRUE, !.b_val = v, !.b_rev = r]
WithM(c, t, r) == [c EXCEPT !.m = TRUE, !.m_has_hash = TRUE, !.m_hash = t, !.m_rev = r]
WithMNoHash(c, r) == [c EXCEPT !.m = TRUE, !.m_rev = r]

\* the data row of key k
SheetRow(k, t) == [h \in Range(Headers) |->
                      IF h = "Key" THEN k ELSE IF h = "Val" THEN t ELSE T_n]

\* the stores built from one choice per key, rows and pages in key order
IndexSeq(n) == [i \in 1..n |-> i]
StoreA(keys, sel) ==
    LET present == SelectSeq(IndexSeq(Len(keys)), LAMBDA i : sel[i].a)
    IN  [j \in DOMAIN present |-> SheetRow(keys[present[j]], sel[present[j]].a_val)]
StoreB(keys, sel) ==
    LET present == SelectSeq(IndexSeq(Len(keys)), LAMBDA i : sel[i].b)
    IN  [j \in DOMAIN present |->
            [id |-> j, last_edited_time |-> sel[present[j]].b_rev,
             properties |-> [Key |-> PyStr(keys[present[j]]),
                             Val |-> sel[present[j]].b_val]]]
PageIdOf(keys, sel, i) ==
    IF sel[i].b THEN Cardinality({j \in 1..i : sel[j].b}) ELSE NoPage
StoreM(keys, sel) ==
    LET present == SelectSeq(IndexSeq(Len(keys)), LAMBDA i : sel[i].m)
    IN  [j \in DOMAIN present |->
            LET i == present[j]
            IN  MetaRecord(keys[i], PageIdOf(keys, sel, i), sel[i].m_rev,
                    IF sel[i].m_has_hash
                        THEN compute_row_hash(columns,
                                [h \in Range(Headers) |->
                                    numericise(SheetRow(keys[i], sel[i].m_hash)[h])])
                        ELSE NoHash)]

InitStores(keys, sel) ==
    /\ worksheet = StoreA(keys, sel)
    /\ pages = StoreB(keys, sel)
    /\ meta_sheet = StoreM(keys, sel)
    /\ nclock = MaxRev
    /\ pc = "start"
    /\ idx = 1
    /\ sheets_by_key = <<>>
    /\ notion_by_key = <<>>
    /\ meta_map = <<>>
    /\ diff = EmptyDiff
    /\ summary = EmptySummary
    /\ ended = <<>>
    /\ edited = <<>>
    /\ reports = <<>>

\* compute_row_hash is not called on its own
NotHashing == hash_rows = <<>> /\ hash_digests = <<>>

\* time.time() when the program starts; 0.0 is what _RateLimiter takes for
\* "never", and the present is further from it than any min_interval
Epoch == 100000

\* no _backoff_delay has been computed
NoDelay == 0 - 1

\* src/Task2.py lines 147-150: the defaults of the retry settings
DefaultEnv ==
    [RPM_LIMIT |-> 30, MAX_RETRIES |-> 6, RETRY_BASE_DELAY |-> 1000,
     COOLDOWN_ON_429 |-> 65000]

\* the limiter is as constructed (line 176) and no wrapped call is made
Unwrapped ==
    /\ time = Epoch
    /\ _last = 0
    /\ totals = <<>>
    /\ wrapper = "none"
    /\ attempt = 0
    /\ wpc = "idle"
    /\ result = "pending"
    /\ rand = 0
    /\ delay = NoDelay
    /\ log = <<>>

\* None as a query cursor
NoCursor == 0

\* no listing call is followed
NotListing ==
    /\ batches = <<>>
    /\ lister = "none"
    /\ lpc = "idle"
    /\ start_cursor = NoCursor
    /\ has_more = TRUE
    /\ results = <<>>
    /\ returned = <<>>

\* no ensure_headers / ensure_columns call is followed
NotEnsuring ==
    /\ ws_header = <<>>
    /\ ensured = <<>>

\* no value is converted on its own
NotConverting == cell_value = None /\ checkbox = <<>>

\* SyncService.two_way_sync is not called; its stores are empty
NotSyncing ==
    /\ ws_rows = <<>>
    /\ db_pages = <<>>
    /\ wall = Epoch
    /\ uuids = 0
    /\ spc = "idle"
    /\ sheet_rows = <<>>
    /\ notion_rows = <<>>
    /\ updates_to_sheet = <<>>
    /\ appends_to_sheet = <<>>
    /\ upserts_to_notion = <<>>
    /\ synced = <<>>

\* no client of SyncService is used
NotServing == NotEnsuring /\ NotListing /\ NotConverting /\ NotSyncing

\* src/Task2.py is not run
NotWrapping ==
    /\ env = DefaultEnv
    /\ caller = "none"
    /\ cpc = "idle"
    /\ Unwrapped

----------------------------------------------------------------------------
(* SpecDiff: _diff on every combination of row, page and baseline *)

DiffKeys == <<K_a, K_b>>
DiffATexts == {T_x, T_7}
DiffBVals == {None, PyStr(T_x), PyStr(T_7)}

DiffChoices ==
    LET As == {Absent} \cup {WithA(Absent, t) : t \in DiffATexts}
        Bs == As \cup {WithB(c, v, r) : c \in As, v \in DiffBVals, r \in 0..MaxRev}
    IN  (Bs \cup {WithM(c, t, r) : c \in Bs, t \in DiffATexts, r \in 0..MaxRev}
            \cup {WithMNoHash(c, r) : c \in Bs, r \in 0..MaxRev})

InitDiff ==
    /\ \E sel \in [DOMAIN DiffKeys -> DiffChoices] : InitStores(DiffKeys, sel)
    /\ NotServing
    /\ NotHashing
    /\ NotWrapping
    /\ direction = "both"
    /\ dry_run = TRUE
    /\ conflict_strategy = "fail"

NextDiff == RunStart

SpecDiff == InitDiff /\ [][NextDiff]_vars

----------------------------------------------------------------------------
(* Spec: one run of SyncEngine.run, for every direction, policy and dry-run
   flag, on stores of up to three keys, two of which differ only by a
   leading blank *)

RunKeys == <<K_a, K_sa, K_b>>

OnlyA == WithA(Absent, T_x)
InBoth(v, r) == WithB(OnlyA, v, r)

\* the first key: every combination of row value, page value, page marker,
\* stored hash and stored marker
FullChoices ==
    LET As == {WithA(Absent, t) : t \in {T_x, T_y}}
        Bs == {WithB(c, PyStr(v), r) : c \in As \cup {Absent}, v \in {T_x, T_y}, r \in Revs}
    IN  {Absent} \cup As \cup Bs
            \cup {WithM(c, t, mr) : c \in {b \in Bs : b.a}, t \in {T_x, T_y}, mr \in Revs}

\* the other keys: unused, only in Sheets, only in Notion, in both without
\* baseline, edited in Sheets only, edited in Notion only
SmallChoices ==
    {Absent, OnlyA, WithB(Absent, PyStr(T_y), 1), InBoth(PyStr(T_y), 1),
     WithM(InBoth(PyStr(T_y), 1), T_y, 1),
     WithM(InBoth(PyStr(T_y), MaxRev), T_x, 1)}

\* upsert_meta, the only writer of the meta sheet, never adds a row for a
\* key whose stripped form already has one
MetaRowsDistinct(keys, sel) ==
    \A i, j \in DOMAIN keys :
        (i # j /\ sel[i].m /\ sel[j].m) => Strip(keys[i]) # Strip(keys[j])

Init ==
    /\ \E sel \in [DOMAIN RunKeys -> FullChoices \cup SmallChoices] :
            /\ sel[1] \in FullChoices
            /\ \A i \in (DOMAIN RunKeys) \ {1} : sel[i] \in SmallChoices
            /\ MetaRowsDistinct(RunKeys, sel)
            /\ InitStores(RunKeys, sel)
            /\ NotServing
    /\ NotHashing
    /\ NotWrapping
    /\ direction \in Directions
    /\ dry_run \in BOOLEAN
    /\ conflict_strategy \in Strategies

Next ==
    \/ RunStart
    \/ NextPhase
    \/ CreateInSheets
    \/ CreateInNotion
    \/ UpdateSheets
    \/ UpdateNotion
    \/ Conflict

Spec == Init /\ [][Next]_vars

----------------------------------------------------------------------------
(* SpecTwoRuns: consecutive calls of run with the same configuration and no
   external change between them, on stores of two keys that differ only by
   a leading blank and whose select value may be unset *)

TwoKeys == <<K_a, K_sa>>

\* the first key: row value "x" or blank, page value "x", "y" or unset
TwoChoices ==
    LET As == {WithA(Absent, t) : t \in {T_x, EmptyStr}}
        Bs == {WithB(c, v, r) : c \in As \cup {Absent},
                                v \in {PyStr(T_x), PyStr(T_y), None}, r \in Revs}
    IN  {Absent} \cup As \cup Bs
            \cup {WithM(c, t, mr) : c \in {b \in Bs : b.a}, t \in {T_x, T_y}, mr \in Revs}

InitTwoRuns ==
    /\ \E sel \in [DOMAIN TwoKeys -> TwoChoices \cup SmallChoices] :
            /\ sel[1] \in TwoChoices
            /\ sel[2] \in SmallChoices
            /\ MetaRowsDistinct(TwoKeys, sel)
            /\ InitStores(TwoKeys, sel)
            /\ NotServing
    /\ NotHashing
    /\ NotWrapping
    /\ direction \in Directions
    /\ dry_run \in BOOLEAN
    /\ conflict_strategy \in Strategies

\* run has returned or raised and the caller calls it again: the locals of
\* the earlier call are gone, the stores are as that call left them
RunAgain ==
    /\ pc \in {"done", "raised"}
    /\ Len(ended) + 1 < MaxRuns
    /\ ended' = Append(ended, pc)
    /\ reports' = Append(reports, [conflicts |-> summary.conflicts,
                                   worksheet |-> worksheet, pages |-> pages])
    /\ pc' = "start"
    /\ idx' = 1
    /\ sheets_by_key' = <<>>
    /\ notion_by_key' = <<>>
    /\ meta_map' = <<>>
    /\ diff' = EmptyDiff
    /\ summary' = EmptySummary
    /\ UNCHANGED <<worksheet, meta_sheet, pages, nclock, direction, dry_run,
                   conflict_strategy, hash_rows, hash_digests, wrapvars,
                   edited, clientvars>>

NextTwoRuns ==
    \/ RunStart
    \/ NextPhase
    \/ CreateInSheets
    \/ CreateInNotion
    \/ UpdateSheets
    \/ UpdateNotion
    \/ Conflict
    \/ RunAgain

SpecTwoRuns == InitTwoRuns /\ [][NextTwoRuns]_vars

----------------------------------------------------------------------------
(* SpecHash: compute_row_hash on two dicts supplied as item lists *)

\* the names a supplied dict may have: the mapped columns, an unmapped
\* column and the two provenance entries of a Notion row
HashNames == {"Key", "Val", "Note", "__notion_page_id__", "__notion_last_edited__"}

\* the values an entry may hold
HashValues(n) ==
    CASE n = "Key" -> {PyStr(K_a)}
      [] n = "Val" -> {PyStr(T_x), PyInt(T_7), None}
      [] n = "Note" -> {PyStr(T_n)}
      [] n = "__notion_page_id__" -> {PyStr(T_y)}
      [] n = "__notion_last_edited__" -> {PyStr(T_7)}

\* item lists of up to MaxItems entries with distinct names
MaxItems == 3
ItemLists ==
    UNION {{items \in [1..n -> [name : HashNames, value : UNION {HashValues(m) : m \in HashNames}]] :
                /\ \A i \in 1..n : items[i].value \in HashValues(items[i].name)
                /\ \A i, j \in 1..n : items[i].name = items[j].name => i = j}
           : n \in 0..MaxItems}

\* dict(items): the mapping Python builds from an item list
dict(items) ==
    [n \in {items[i].name : i \in DOMAIN items} |->
        items[CHOOSE i \in DOMAIN items : items[i].name = n].value]

\* two dicts are supplied, no run is under way
InitHash ==
    /\ InitStores(<<>>, <<>>)
    /\ NotServing
    /\ direction = "both"
    /\ dry_run = TRUE
    /\ conflict_strategy = "fail"
    /\ hash_rows \in ItemLists \X ItemLists
    /\ hash_digests = <<>>
    /\ NotWrapping

\* compute_row_hash is called on each dict, and then on the first one again
HashRows ==
    /\ hash_rows # <<>>
    /\ Len(hash_digests) < 3
    /\ hash_digests' =
            Append(hash_digests,
                   compute_row_hash(columns,
                        dict(hash_rows[IF Len(hash_digests) = 2 THEN 1
                                       ELSE Len(hash_digests) + 1])))
    /\ UNCHANGED <<worksheet, meta_sheet, pages, nclock, direction, dry_run,
                   conflict_strategy, pc, idx, sheets_by_key, notion_by_key,
                   meta_map, diff, summary, ended, hash_rows, wrapvars,
                   edited, reports, clientvars>>

NextHash == HashRows

SpecHash == InitHash /\ [][NextHash]_vars

----------------------------------------------------------------------------
(* Claims about SyncEngine._diff (SpecDiff) *)

ListNames == {"to_create_in_sheets", "to_create_in_notion", "to_update_sheets",
              "to_update_notion", "conflicts"}

\* _diff has returned
Classified == pc # "start"

KeysA == DOMAIN sheets_by_key
KeysB == DOMAIN notion_by_key
KeysBoth == KeysA \cap KeysB

\* the lists key k is in, and how often it occurs in all of them
ListsOf(k) == {l \in ListNames : k \in Range(diff[l])}
Occurrences(k) ==
    Cardinality({<<l, i>> \in ListNames \X (1..Cardinality(KeysA \cup KeysB)) :
                    i \in DOMAIN diff[l] /\ diff[l][i] = k})

\* the text forms of the two stores' values agree on every mapped column
TextEqual(k) ==
    \A i \in DOMAIN columns :
        sheets_by_key[k][columns[i].sheet].text
            = notion_by_key[k].values[columns[i].sheet].text

HasBaseline(k) == k \in DOMAIN meta_map
HashA(k) == compute_row_hash(columns, sheets_by_key[k])
HashMatches(k) == meta_map[k].sheets_row_hash = HashA(k)
RevB(k) == notion_by_key[k].last_edited
RevBase(k) == meta_map[k].notion_last_edited_time
\* both markers are there and B's is the greater
BNewer(k) == RevB(k) # NoRev /\ RevBase(k) # NoRev /\ RevB(k) > RevBase(k)

\* C1: every key of the union is in at most one of the five lists (a key in
\* none is a noOp), no list holds a key outside the union, a key only in
\* Notion is in to_create_in_sheets and a key only in Sheets is in
\* to_create_in_notion, whatever the baseline holds.
C1_OneActionPerKey ==
    Classified =>
        /\ \A k \in KeysA \cup KeysB : Occurrences(k) <= 1
        /\ \A l \in ListNames : Range(diff[l]) \subseteq KeysA \cup KeysB
        /\ \A k \in KeysB \ KeysA : ListsOf(k) = {"to_create_in_sheets"}
        /\ \A k \in KeysA \ KeysB : ListsOf(k) = {"to_create_in_notion"}

C1_Witness ==
    /\ Classified
    /\ \E k \in KeysB \ KeysA :
            HasBaseline(k) /\ ListsOf(k) = {"to_create_in_sheets"}
    /\ \E k \in KeysA \ KeysB :
            HasBaseline(k) /\ ListsOf(k) = {"to_create_in_notion"}

\* C2: a key present in both stores is a noOp (in no list) exactly when the
\* text forms of the two values are equal on every mapped column, whether
\* the baseline is absent, stale or current.
C2_NoOpIffTextEqual ==
    Classified => \A k \in KeysBoth : (ListsOf(k) = {}) <=> TextEqual(k)

C2_Witness ==
    /\ Classified
    /\ \E k \in KeysBoth :
            /\ TextEqual(k)
            /\ sheets_by_key[k]["Val"] # notion_by_key[k].values["Val"]
            /\ HasBaseline(k) /\ ~HashMatches(k)
            /\ ListsOf(k) = {}
    /\ \E k \in KeysBoth : ~TextEqual(k) /\ ~HasBaseline(k) /\ ListsOf(k) # {}

\* C3 as claimed: a key in both stores with differing values and a baseline
\* whose hash differs from hash(A) is in to_update_notion whenever B's marker
\* is not greater than the baseline's or one of the two markers is missing.
C3_Original ==
    Classified =>
        \A k \in KeysBoth :
            (~TextEqual(k) /\ HasBaseline(k) /\ ~HashMatches(k) /\ ~BNewer(k))
                => ListsOf(k) = {"to_update_notion"}

\* C3 amended: ... whenever the baseline holds a revision marker and B's
\* marker is missing or not greater than it; with no marker in the baseline
\* B counts as changed and the key is a conflict.
C3_UpdateNotionWhenOnlyAChanged ==
    Classified =>
        \A k \in KeysBoth :
            (~TextEqual(k) /\ HasBaseline(k) /\ ~HashMatches(k))
                => /\ (RevBase(k) # NoRev /\ (RevB(k) = NoRev \/ RevB(k) <= RevBase(k)))
                        => ListsOf(k) = {"to_update_notion"}
                   /\ RevBase(k) = NoRev => ListsOf(k) = {"conflicts"}

C3_Witness ==
    /\ Classified
    /\ \E k \in KeysBoth :
            /\ ~TextEqual(k) /\ HasBaseline(k) /\ ~HashMatches(k)
            /\ RevBase(k) # NoRev /\ RevB(k) = RevBase(k)
            /\ ListsOf(k) = {"to_update_notion"}
    /\ \E k \in KeysBoth :
            /\ ~TextEqual(k) /\ HasBaseline(k) /\ ~HashMatches(k)
            /\ RevBase(k) = NoRev /\ RevB(k) = NoRev
            /\ ListsOf(k) = {"conflicts"}

\* C4: a key in both stores with differing values and a baseline is in
\* to_update_sheets whenever B's marker is strictly greater than the
\* baseline's and hash(A) equals the baseline's hash.
C4_UpdateSheetsWhenOnlyBChanged ==
    Classified =>
        \A k \in KeysBoth :
            (~TextEqual(k) /\ HasBaseline(k) /\ HashMatches(k) /\ BNewer(k))
                => ListsOf(k) = {"to_update_sheets"}

C4_Witness ==
    /\ Classified
    /\ \E k \in KeysBoth :
            /\ ~TextEqual(k) /\ HasBaseline(k) /\ HashMatches(k) /\ BNewer(k)
            /\ ListsOf(k) = {"to_update_sheets"}

\* C5: a key in both stores with differing values is a conflict when both
\* sides changed since the baseline and whenever it has no baseline; no side
\* is picked in the no-baseline case.
C5_ConflictWhenBothChangedOrNoBaseline ==
    Classified =>
        \A k \in KeysBoth :
            (~TextEqual(k) /\ (~HasBaseline(k) \/ (~HashMatches(k) /\ BNewer(k))))
                => ListsOf(k) = {"conflicts"}

C5_Witness ==
    /\ Classified
    /\ \E k \in KeysBoth : ~TextEqual(k) /\ ~HasBaseline(k) /\ ListsOf(k) = {"conflicts"}
    /\ \E k \in KeysBoth :
            /\ ~TextEqual(k) /\ HasBaseline(k) /\ ~HashMatches(k) /\ BNewer(k)
            /\ ListsOf(k) = {"conflicts"}

\* C6: a key in both stores whose values differ while hash(A) equals the
\* baseline's hash and B's marker is not newer than the baseline's is in
\* to_update_sheets, never in conflicts or to_update_notion.
C6_FallbackUpdatesSheets ==
    Classified =>
        \A k \in KeysBoth :
            (~TextEqual(k) /\ HasBaseline(k) /\ HashMatches(k) /\ ~BNewer(k))
                => ListsOf(k) = {"to_update_sheets"}

C6_Witness ==
    /\ Classified
    /\ \E k \in KeysBoth :
            /\ ~TextEqual(k) /\ HasBaseline(k) /\ HashMatches(k)
            /\ RevBase(k) # NoRev /\ RevB(k) # NoRev /\ RevB(k) <= RevBase(k)
            /\ ListsOf(k) = {"to_update_sheets"}

----------------------------------------------------------------------------
(* Claims about SyncEngine.run (Spec) *)

\* the baseline, the Sheets index and the Notion index as a load_state of
\* this moment would give them
BaselineNow == load_meta(meta_sheet)
SheetsNow == _build_index_by_key(get_all_rows(worksheet), <<>>)
NotionNow == _build_notion_index(pages, <<>>)

\* key k's baseline entry is what it was when the run loaded it
BaselineUnchanged(k) ==
    IF k \in DOMAIN meta_map
        THEN k \in DOMAIN BaselineNow /\ BaselineNow[k] = meta_map[k]
        ELSE k \notin DOMAIN BaselineNow

\* key k's record in each store is what it was when the run loaded it
RecordUnwritten(k) ==
    /\ k \in DOMAIN sheets_by_key
        => k \in DOMAIN SheetsNow /\ SheetsNow[k] = sheets_by_key[k]
    /\ k \in DOMAIN notion_by_key
        => k \in DOMAIN NotionNow /\ NotionNow[k] = notion_by_key[k]

\* C7: under policy FAIL every key classified as conflict is listed under the
\* summary's conflicts when the run returns, no write is made for it to
\* either store and its baseline entry stays unchanged, for every direction,
\* dry run or not.
C7_FailPolicyExcludesConflicts ==
    (Classified /\ conflict_strategy = "fail") =>
        \A k \in Range(diff.conflicts) :
            /\ RecordUnwritten(k)
            /\ BaselineUnchanged(k)
            /\ pc = "done" => k \in Range(summary.conflicts)

\* an iteration of the conflicts loop completes in a run that writes
ConflictIterationDone ==
    pc = "conflicts" /\ pc' = "conflicts" /\ idx' = idx + 1 /\ ~dry_run

\* after the step some page holds, in text form, the values Sheets had for k
\* at load, carries a marker newer than any before the step, and k's
\* baseline holds hash(A), that page's id and that marker
NotionWrittenFromSheets(k) ==
    \E i \in DOMAIN pages' :
        /\ \A c \in Range(columns) :
                extract_property_plain(pages'[i].properties[c.notion], c.type).text
                    = sheets_by_key[k][c.sheet].text
        /\ pages'[i].last_edited_time > nclock
        /\ k \in DOMAIN load_meta(meta_sheet')
        /\ load_meta(meta_sheet')[k] =
                MetaRecord(k, pages'[i].id, pages'[i].last_edited_time,
                           compute_row_hash(columns, sheets_by_key[k]))

\* after the step some row holds the values Notion had for k at load, and
\* k's baseline holds the hash of that row, the page's id and its marker
SheetsWrittenFromNotion(k) ==
    \E i \in DOMAIN worksheet' :
        /\ \A c \in Range(columns) :
                worksheet'[i][c.sheet] = CellText(notion_by_key[k].values[c.sheet])
        /\ k \in DOMAIN load_meta(meta_sheet')
        /\ load_meta(meta_sheet')[k] =
                MetaRecord(k, notion_by_key[k].page_id, notion_by_key[k].last_edited,
                           compute_row_hash(columns, get_all_rows(worksheet')[i]))

\* C8: under A_WINS (sheets_wins) with a direction that allows writing
\* Notion, the iteration of a conflicted key writes Notion with the values of
\* Sheets and sets the key's baseline to hash(A) and the marker the write
\* returned; under B_WINS (notion_wins) with a direction that allows writing
\* Sheets it writes Sheets with Notion's values; the key is not added to the
\* summary's conflicts.
C8_PolicyResolvesConflict ==
    [][ConflictIterationDone =>
            LET k == diff.conflicts[idx]
            IN  /\ (conflict_strategy = "sheets_wins" /\ direction \in {"both", "to-notion"})
                    => /\ NotionWrittenFromSheets(k)
                       /\ summary'.conflicts = summary.conflicts
                /\ (conflict_strategy = "notion_wins" /\ direction \in {"both", "to-sheets"})
                    => /\ SheetsWrittenFromNotion(k)
                       /\ summary'.conflicts = summary.conflicts]_vars

C8_Witness ==
    /\ pc = "done" /\ ~dry_run
    /\ conflict_strategy = "sheets_wins" /\ direction = "to-notion"
    /\ Len(diff.conflicts) >= 1
    /\ summary.conflicts = <<>>
    /\ \A k \in Range(diff.conflicts) :
            /\ HasBaseline(k)
            /\ k \in DOMAIN BaselineNow
            /\ BaselineNow[k].sheets_row_hash = HashA(k)
            /\ BaselineNow[k].notion_last_edited_time > RevB(k)
            /\ NotionNow[k].values["Val"].text = sheets_by_key[k]["Val"].text

\* C9: under A_WINS with direction to-sheets, or B_WINS with direction
\* to-notion, every conflicted key is listed under the summary's conflicts
\* when the run returns, no store write is made for it, its baseline is
\* unchanged and no update counter is incremented for it.
C9_ExcludedTargetKeepsConflict ==
    (/\ Classified
     /\ \/ conflict_strategy = "sheets_wins" /\ direction = "to-sheets"
        \/ conflict_strategy = "notion_wins" /\ direction = "to-notion") =>
        /\ \A k \in Range(diff.conflicts) :
                /\ RecordUnwritten(k)
                /\ BaselineUnchanged(k)
                /\ pc = "done" => k \in Range(summary.conflicts)
        /\ summary.updated_sheets <= Len(diff.to_update_sheets)
        /\ summary.updated_notion <= Len(diff.to_update_notion)

\* C10: a failing adapter write for one key does not abort the run: the
\* exception never leaves run, the remaining keys are processed and the
\* summary is returned.
C10_FailureDoesNotAbortRun == pc # "raised"

\* key k's baseline entry in meta sheet ms is what the run loaded for it
BaselineAsLoaded(k, ms) ==
    IF k \in DOMAIN meta_map
        THEN k \in DOMAIN load_meta(ms) /\ load_meta(ms)[k] = meta_map[k]
        ELSE k \notin DOMAIN load_meta(ms)

\* the action a run started on stores ws, ps, ms gives key k
ActionOn(k, ws, ps, ms) ==
    diff_key(k, _build_index_by_key(get_all_rows(ws), <<>>),
             _build_notion_index(ps, <<>>), load_meta(ms))

\* the iteration of the current loop raises
IterationRaises == pc \in Range(Phases) /\ pc' = "raised"

\* C11: when the write for a key fails, the key's baseline entry is what it
\* was before the run (absent stays absent), and when the failed write left
\* the stores as they were the next run gives the key the same action.
C11_FailedWriteKeepsBaseline ==
    [][IterationRaises =>
            LET k == PhaseList(pc)[idx]
            IN  /\ BaselineAsLoaded(k, meta_sheet')
                /\ (worksheet' = worksheet /\ pages' = pages)
                    => ActionOn(k, worksheet', pages', meta_sheet')
                        = diff_key(k, sheets_by_key, notion_by_key, meta_map)]_vars

\* an iteration of a run that writes completes with both writes made
SuccessfulWrite ==
    /\ pc \in Range(Phases) /\ pc' = pc /\ idx' = idx + 1
    /\ ~dry_run /\ summary'.conflicts = summary.conflicts

\* the current loop writes Notion (else it writes Sheets)
WritesToNotion ==
    \/ pc \in {"create_notion", "update_notion"}
    \/ pc = "conflicts" /\ conflict_strategy = "sheets_wins"

\* C12: after every successful write for a key in a non-dry run the key's
\* baseline entry exists and holds the hash of the values now stored in
\* Sheets for the key, the id of the key's Notion page and the marker the
\* write to Notion returned (writes to Notion) or the marker of the snapshot
\* (writes to Sheets); the baseline is written only in a step that has
\* written the store.
C12_BaselineAfterSuccessfulWrite ==
    [][/\ SuccessfulWrite =>
            LET k == PhaseList(pc)[idx]
                sheets_after == _build_index_by_key(get_all_rows(worksheet'), <<>>)
                notion_after == _build_notion_index(pages', <<>>)
                base == load_meta(meta_sheet')
            IN  /\ k \in DOMAIN base
                /\ k \in DOMAIN sheets_after
                /\ base[k].sheets_row_hash = compute_row_hash(columns, sheets_after[k])
                /\ k \in DOMAIN notion_after
                /\ base[k].notion_page_id = notion_after[k].page_id
                /\ base[k].notion_last_edited_time =
                        IF WritesToNotion THEN notion_after[k].last_edited
                        ELSE notion_by_key[k].last_edited
       /\ meta_sheet' # meta_sheet => (worksheet' # worksheet \/ pages' # pages)]_vars

\* C13: when a run that writes has returned, every key it found in both
\* stores with equal values (noOp) has a baseline entry holding the hash of
\* that value and Notion's current marker of the key.
C13_NoOpRefreshesBaseline ==
    (pc = "done" /\ ~dry_run) =>
        \A k \in KeysBoth :
            (TextEqual(k) /\ ListsOf(k) = {}) =>
                /\ k \in DOMAIN BaselineNow
                /\ BaselineNow[k].sheets_row_hash = HashA(k)
                /\ BaselineNow[k].notion_last_edited_time = RevB(k)

\* a step writes a store or the baseline
StoreWritten ==
    worksheet' # worksheet \/ pages' # pages \/ meta_sheet' # meta_sheet

\* every key of a list has been attempted (and counted) when the direction
\* admits the list's group
GroupDone(counter, list, dirs) ==
    direction \in dirs => summary[counter] >= Len(diff[list])

CreatesInSheetsDone ==
    GroupDone("created_in_sheets", "to_create_in_sheets", {"both", "to-sheets"})
CreatesInNotionDone ==
    GroupDone("created_in_notion", "to_create_in_notion", {"both", "to-notion"})
UpdatesToSheetsDone ==
    GroupDone("updated_sheets", "to_update_sheets", {"both", "to-sheets"})
UpdatesToNotionDone ==
    GroupDone("updated_notion", "to_update_notion", {"both", "to-notion"})

\* C14: a write of the creates in Notion comes after every create in Sheets
\* was attempted, a write of the updates to Sheets after every create, a
\* write of the updates to Notion after those too, and a write for a
\* conflicted key after every create and update.
C14_FixedGroupOrder ==
    [][StoreWritten =>
            /\ pc \in {"create_notion", "update_sheets", "update_notion", "conflicts"}
                    => CreatesInSheetsDone
            /\ pc \in {"update_sheets", "update_notion", "conflicts"}
                    => CreatesInNotionDone
            /\ pc \in {"update_notion", "conflicts"} => UpdatesToSheetsDone
            /\ pc = "conflicts" => UpdatesToNotionDone]_vars

C14_Witness ==
    /\ pc = "done" /\ ~dry_run /\ direction = "both"
    /\ conflict_strategy = "sheets_wins"
    /\ Len(diff.to_create_in_sheets) = 1 /\ summary.created_in_sheets = 1
    /\ Len(diff.to_create_in_notion) = 1 /\ summary.created_in_notion = 1
    /\ Len(diff.conflicts) = 1 /\ summary.updated_notion = 1
    /\ nclock = MaxRev + 2

\* the policy and the direction resolve conflicts by a write to Sheets / Notion
ResolvesToSheets ==
    conflict_strategy = "notion_wins" /\ direction \in {"both", "to-sheets"}
ResolvesToNotion ==
    conflict_strategy = "sheets_wins" /\ direction \in {"both", "to-notion"}

\* the summary of a run of this direction and policy in which every key of
\* the classifier's output is applied and no write fails
FullSummary ==
    [created_in_sheets |->
        IF direction \in {"both", "to-sheets"} THEN Len(diff.to_create_in_sheets) ELSE 0,
     created_in_notion |->
        IF direction \in {"both", "to-notion"} THEN Len(diff.to_create_in_notion) ELSE 0,
     updated_sheets |->
        (IF direction \in {"both", "to-sheets"} THEN Len(diff.to_update_sheets) ELSE 0)
            + (IF ResolvesToSheets THEN Len(diff.conflicts) ELSE 0),
     updated_notion |->
        (IF direction \in {"both", "to-notion"} THEN Len(diff.to_update_notion) ELSE 0)
            + (IF ResolvesToNotion THEN Len(diff.conflicts) ELSE 0),
     conflicts |->
        IF ResolvesToSheets \/ ResolvesToNotion THEN <<>> ELSE diff.conflicts]

\* C15: no step of a dry run changes the worksheet, the Notion pages or the
\* meta sheet, for every direction and policy, and a run that returns, dry
\* or not, returns the counts and the conflict list that the classifier's
\* output, the direction and the policy determine: those of the non-dry run
\* on the same snapshots in which no write fails.
C15_DryRunWritesNothingSameSummary ==
    [][/\ dry_run => UNCHANGED <<worksheet, pages, meta_sheet>>
       /\ pc' = "done" => summary' = FullSummary]_vars

C15_Witness ==
    /\ pc = "done" /\ dry_run
    /\ summary.created_in_sheets = 1 /\ summary.created_in_notion = 1
    /\ summary.updated_sheets = 1 /\ Len(diff.conflicts) = 1
    /\ SheetsNow = sheets_by_key /\ NotionNow = notion_by_key
    /\ BaselineNow = meta_map

\* an iteration of a loop over a non-conflict list completes in a run that
\* writes
NonConflictIterationDone ==
    /\ pc \in {"create_sheets", "create_notion", "update_sheets", "update_notion"}
    /\ pc' = pc /\ idx' = idx + 1 /\ ~dry_run

\* the counts of a run that has applied every non-conflict list the
\* direction admits, and nothing else
NonConflictSummary ==
    [created_in_sheets |->
        IF direction \in {"both", "to-sheets"} THEN Len(diff.to_create_in_sheets) ELSE 0,
     created_in_notion |->
        IF direction \in {"both", "to-notion"} THEN Len(diff.to_create_in_notion) ELSE 0,
     updated_sheets |->
        IF direction \in {"both", "to-sheets"} THEN Len(diff.to_update_sheets) ELSE 0,
     updated_notion |->
        IF direction \in {"both", "to-notion"} THEN Len(diff.to_update_notion) ELSE 0,
     conflicts |-> <<>>]

\* C20: under each of the three policies, an iteration over a non-conflict
\* list writes the key of the list to the list's target with the values of
\* the other store's snapshot and leaves the other store alone, and when the
\* conflicts loop is entered the keys written are those of the non-conflict
\* lists the direction admits: neither depends on the policy.
C20_PolicyLeavesNonConflictsAlone ==
    [][/\ NonConflictIterationDone =>
            LET k == PhaseList(pc)[idx]
            IN  IF pc \in {"create_sheets", "update_sheets"}
                    THEN SheetsWrittenFromNotion(k) /\ pages' = pages
                    ELSE NotionWrittenFromSheets(k) /\ worksheet' = worksheet
       /\ (pc = "update_notion" /\ pc' = "conflicts" /\ ~dry_run)
            => summary' = NonConflictSummary]_vars

C20_Witness ==
    /\ pc = "conflicts" /\ idx = 1 /\ ~dry_run
    /\ conflict_strategy = "sheets_wins" /\ direction = "both"
    /\ Len(diff.to_update_sheets) = 1 /\ summary.updated_sheets = 1
    /\ Len(diff.to_create_in_notion) = 1 /\ summary.created_in_notion = 1
    /\ Len(diff.conflicts) = 1

----------------------------------------------------------------------------
(* Claims about consecutive runs (SpecTwoRuns) *)

\* this call of run follows one that returned, with no change in between
AfterCompleteRun == ended # <<>> /\ ended[Len(ended)] = "done"

\* C16: a run that writes and follows a complete run, with no external
\* change to either store in between, returns zero creates, zero updates
\* and an empty conflict list.
C16_SecondRunDoesNothing ==
    (AfterCompleteRun /\ ~dry_run /\ pc = "done") => summary = EmptySummary

\* key k is in both stores now and the text forms of its two values agree on
\* every mapped column
TextEqualNow(k) ==
    /\ k \in DOMAIN SheetsNow /\ k \in DOMAIN NotionNow
    /\ \A i \in DOMAIN columns :
            SheetsNow[k][columns[i].sheet].text
                = NotionNow[k].values[columns[i].sheet].text

\* C17: when a run that writes has returned, every key it classified as
\* noOp, as update of Sheets or as update of Notion has values in the two
\* stores that compare equal column by column over the mapped columns.
C17_NonConflictKeysConverge ==
    (pc = "done" /\ ~dry_run) =>
        \A k \in KeysBoth :
            ListsOf(k) \subseteq {"to_update_sheets", "to_update_notion"}
                => TextEqualNow(k)

\* no key has two rows in the worksheet or two pages in Notion
NoSecondRecord ==
    /\ \A i, j \in DOMAIN worksheet :
            worksheet[i][key_column] = worksheet[j][key_column] => i = j
    /\ \A i, j \in DOMAIN pages :
            pages[i].properties[key_column] = pages[j].properties[key_column] => i = j

\* C18: a complete run that writes and follows an interrupted run (stopped
\* before a store write or between a store write and its baseline write),
\* with no external change in between, ends with every key it did not
\* classify as conflict present in both stores with equal values, and with
\* no key holding a second record in either store.
C18_InterruptedRunResumes ==
    (ended # <<>> /\ ended[Len(ended)] = "raised" /\ ~dry_run /\ pc = "done") =>
        /\ NoSecondRecord
        /\ \A k \in (KeysA \cup KeysB) \ Range(diff.conflicts) : TextEqualNow(k)

----------------------------------------------------------------------------
(* Claims about compute_row_hash (SpecHash) *)

\* row.get(name): None for a name the dict does not have
dict_get(items, n) ==
    IF n \in DOMAIN dict(items) THEN dict(items)[n] ELSE None

\* the two supplied dicts hold identical values for every mapped column
SameMappedValues ==
    \A i \in DOMAIN columns :
        dict_get(hash_rows[1], columns[i].sheet) = dict_get(hash_rows[2], columns[i].sheet)

\* C19: two dicts with identical values for every mapped column get the
\* same digest, whatever their provenance entries (page id, marker), their
\* unmapped entries and the order their entries were supplied in, and
\* computing the digest of a dict again gives the same digest.
C19_HashOfMappedValuesOnly ==
    /\ (Len(hash_digests) >= 2 /\ SameMappedValues)
            => hash_digests[1] = hash_digests[2]
    /\ Len(hash_digests) = 3 => hash_digests[3] = hash_digests[1]

C19_Witness ==
    /\ Len(hash_digests) = 3
    /\ SameMappedValues
    /\ Len(hash_rows[1]) = 3 /\ Len(hash_rows[2]) = 3
    /\ hash_rows[1][1].name = "Key" /\ hash_rows[1][2].name = "Val"
    /\ hash_rows[1][3].name = "__notion_page_id__"
    /\ hash_rows[2][1].name = "Note" /\ hash_rows[2][2].name = "Val"
    /\ hash_rows[2][3].name = "Key"
    /\ hash_rows[1][2].value = PyInt(T_7)
    /\ hash_digests[1] = hash_digests[2]

\* the keys that have a baseline entry in meta sheet ms
BaselineKeys(ms) == DOMAIN load_meta(ms)

\* C21: in every step of every run of a sequence of runs, whatever the
\* direction, the policy, the dry-run flag and the failures, no key loses
\* its baseline entry, and a key gains one only in the iteration that wrote
\* that key successfully.
C21_BaselineNeverShrinks ==
    [][/\ BaselineKeys(meta_sheet) \subseteq BaselineKeys(meta_sheet')
       /\ \A k \in BaselineKeys(meta_sheet') \ BaselineKeys(meta_sheet) :
                SuccessfulWrite /\ k = PhaseList(pc)[idx]]_vars

\* the keys that have a record in worksheet ws / in Notion pages ps
SheetKeys(ws) == DOMAIN _build_index_by_key(get_all_rows(ws), <<>>)
NotionKeys(ps) == DOMAIN _build_notion_index(ps, <<>>)

\* C22: no step of a run takes a record away from either store (every key
\* that has a row keeps a row, every key that has a page keeps a page, and
\* neither store loses a row or a page), and a key found in one store only
\* is classified as a create in the other and as nothing else.
C22_NoDeletion ==
    [][/\ SheetKeys(worksheet) \subseteq SheetKeys(worksheet')
       /\ NotionKeys(pages) \subseteq NotionKeys(pages')
       /\ Len(worksheet') >= Len(worksheet) /\ Len(pages') >= Len(pages)
       /\ pc' = "create_sheets" =>
            /\ \A k \in NotionKeys(pages) \ SheetKeys(worksheet) :
                    {l \in ListNames : k \in Range(diff'[l])} = {"to_create_in_sheets"}
            /\ \A k \in SheetKeys(worksheet) \ NotionKeys(pages) :
                    {l \in ListNames : k \in Range(diff'[l])} = {"to_create_in_notion"}]_vars

----------------------------------------------------------------------------
(* src/Task2.py: the rate limiter, the backoff and the retrying calls.     *)
(* Times are in milliseconds; str(e) is a sequence of characters.          *)

Max(a, b) == IF a >= b THEN a ELSE b
Min(a, b) == IF a <= b THEN a ELSE b

RECURSIVE Pow2(_)
Pow2(k) == IF k <= 0 THEN 1 ELSE 2 * Pow2(k - 1)

\* sub in s
Contains(s, sub) ==
    \E i \in 0..(Len(s) - Len(sub)) : SubSeq(s, i + 1, i + Len(sub)) = sub

\* _RateLimiter.__init__: 60.0 / max(1, rpm)
min_interval(rpm) == 60000 \div Max(1, rpm)

\* mutant: wait() sleeps for the interval less twice the time gone by
wait_sleep_short(t, last, interval) ==
    LET delta == t - last
    IN  IF delta < interval THEN Max(0, interval - 2 * delta) ELSE 0

\* _RateLimiter.wait: how long it sleeps when called at t
wait_sleep(t, last, interval) ==
    LET delta == t - last
    IN  IF delta < interval THEN interval - delta ELSE 0

\* the time at which _rate.wait(), called now, returns
wait_return == time + wait_sleep(time, _last, min_interval(env.RPM_LIMIT))

\* one entry of the log: a return of wait(), a reset(), an invocation of a
\* remote operation with its outcome, or a sleep
Event(e, t, by, c, out) == [ev |-> e, t |-> t, by |-> by, call |-> c, out |-> out]

\* random.random() is in [0, 1): thousandths
Jitters == {0, 500, 990}

\* mutant: the delay is not capped
_backoff_delay_uncapped(attempt_, base, r) ==
    ((base * Pow2(attempt_)) * (10000 + r)) \div 10000

\* min(20.0, RETRY_BASE_DELAY * (2 ** attempt)) * (1 + 0.1 * random.random())
_backoff_delay(attempt_, base, r) ==
    (Min(20000, base * Pow2(attempt_)) * (10000 + r)) \div 10000

\* the remote operation returns
Ok == [type |-> "ok", name |-> "ok", text |-> <<>>]

\* what a remote operation may do: return, or raise the throttling response,
\* a not-found error, a bad request whose message quotes a range of the tab
\* T429, or a connection error, which is no APIError
Outcomes ==
    {Ok,
     [type |-> "APIError", name |-> "429", text |-> <<"4", "2", "9">>],
     [type |-> "APIError", name |-> "404", text |-> <<"4", "0", "4">>],
     [type |-> "APIError", name |-> "400",
      text |-> <<"4", "0", "0", " ", "T", "4", "2", "9">>],
     [type |-> "Exception", name |-> "conn",
      text |-> <<"r", "e", "s", "e", "t">>]}

_is_rate_limit_error(e) ==
    \/ Contains(e.text, <<"4", "2", "9">>)
    \/ Contains(e.text, <<"R", "A", "T", "E", "_", "L", "I", "M", "I", "T">>)
    \/ Contains(e.text, <<"R", "E", "S", "O", "U", "R", "C", "E", "_",
                          "E", "X", "H", "A", "U", "S", "T", "E", "D">>)

\* the wrappers of lines 190-326 that are followed here; the second also has
\* an "except Exception" clause
Task2Wrappers == {"gc_open_by_key_rl", "ss_get_worksheet_by_id_rl", "ws_get"}
Catches(w, e) ==
    \/ e.type = "APIError"
    \/ e.type = "Exception" /\ w = "ss_get_worksheet_by_id_rl"

\* the number of the wrapped call within the caller
CallNo == Len(totals) + 1

\*---- _RateLimiter on its own: any sequence of wait() and reset() ----

\* the log holds at most MaxCalls entries
MaxCalls == 5
\* other work takes time between two calls, in steps of Pause up to Horizon
Pause == 500
Horizon == 4000

InitLimiter ==
    /\ InitStores(<<>>, <<>>)
    /\ NotServing
    /\ direction = "both"
    /\ dry_run = TRUE
    /\ conflict_strategy = "fail"
    /\ NotHashing
    \* settings with whole numbers of milliseconds per request
    /\ env \in {[DefaultEnv EXCEPT !.RPM_LIMIT = r] : r \in {30, 60, 40}}
    /\ caller = "none"
    /\ cpc = "idle"
    /\ Unwrapped

\* SyncEngine.run is not under way
NoRun ==
    UNCHANGED <<worksheet, meta_sheet, pages, nclock, direction, dry_run,
                conflict_strategy, pc, idx, sheets_by_key, notion_by_key,
                meta_map, diff, summary, ended, hash_rows, hash_digests,
                edited, reports>>

EngineIdle == NoRun /\ UNCHANGED clientvars

\* _rate.wait()
wait ==
    /\ caller = "none"
    /\ Len(log) < MaxCalls
    /\ time' = wait_return
    /\ _last' = time'
    /\ log' = Append(log, Event("wait", time', "none", 0, ""))
    /\ UNCHANGED <<env, caller, cpc, totals, wrapper, attempt, wpc, result,
                   rand, delay>>
    /\ EngineIdle

\* _rate.reset()
reset ==
    /\ caller = "none"
    /\ Len(log) < MaxCalls
    /\ _last' = 0
    /\ log' = Append(log, Event("reset", time, "none", 0, ""))
    /\ UNCHANGED <<env, time, caller, cpc, totals, wrapper, attempt, wpc,
                   result, rand, delay>>
    /\ EngineIdle

\* time goes by between two calls
Elapse ==
    /\ caller = "none"
    /\ Len(log) < MaxCalls
    /\ time + Pause <= Epoch + Horizon
    /\ time' = time + Pause
    /\ UNCHANGED <<env, _last, caller, cpc, totals, wrapper, attempt, wpc,
                   result, rand, delay, log>>
    /\ EngineIdle

NextLimiter == wait \/ reset \/ Elapse

SpecLimiter == InitLimiter /\ [][NextLimiter]_vars

\*---- _backoff_delay on its own ----

\* attempts 0..MaxAttempt
MaxAttempt == 6

InitBackoff ==
    /\ InitStores(<<>>, <<>>)
    /\ NotServing
    /\ direction = "both"
    /\ dry_run = TRUE
    /\ conflict_strategy = "fail"
    /\ NotHashing
    /\ env \in {[DefaultEnv EXCEPT !.RETRY_BASE_DELAY = d] : d \in {1000, 2000, 3000, 8000}}
    /\ caller = "none"
    /\ cpc = "idle"
    /\ time = Epoch
    /\ _last = 0
    /\ totals = <<>>
    /\ wrapper = "none"
    /\ attempt \in 0..MaxAttempt
    /\ wpc = "idle"
    /\ result = "pending"
    /\ rand \in Jitters
    /\ delay = NoDelay
    /\ log = <<>>

\* delay = _backoff_delay(attempt)
Backoff ==
    /\ caller = "none"
    /\ delay = NoDelay
    /\ delay' = _backoff_delay(attempt, env.RETRY_BASE_DELAY, rand)
    /\ UNCHANGED <<env, time, _last, caller, cpc, totals, wrapper, attempt,
                   wpc, result, rand, log>>
    /\ EngineIdle

NextBackoff == Backoff

SpecBackoff == InitBackoff /\ [][NextBackoff]_vars

\*---- the retrying calls and the functions that make them ----

\* tracker rows that build_totals_from_tracker_output goes through
MaxRows == 2

\* the values of random.random() drawn while a wrapper backs off
WrapperJitters == {0, 990}

\* the functions followed, each with the retrying call it makes
Callers ==
    {"build_totals_from_tracker_output", "pick_child_ws", "get_header_map",
     "SyncEngine.run", "SyncEngine.load_state"}
WrapperOf(c) ==
    CASE c = "build_totals_from_tracker_output" -> "gc_open_by_key_rl"
      [] c = "pick_child_ws" -> "ss_get_worksheet_by_id_rl"
      [] c = "get_header_map" -> "ws_get"
      [] c = "SyncEngine.run" -> "_create_or_update_notion"
      [] OTHER -> "none"

InitWrapper ==
    /\ InitStores(<<>>, <<>>)
    /\ NotServing
    /\ direction = "both"
    /\ dry_run = TRUE
    /\ conflict_strategy = "fail"
    /\ NotHashing
    /\ env \in {[DefaultEnv EXCEPT !.MAX_RETRIES = m, !.RETRY_BASE_DELAY = d] :
                    m \in 1..3, d \in {1000, 8000}}
    /\ caller \in Callers
    /\ cpc = "ready"
    /\ Unwrapped

\* the caller enters its wrapper (sum_views_in_child line 480 for each
\* tracker row, pick_child_ws line 454, get_header_map line 444, the
\* engine's self._create_or_update_notion(...))
Call ==
    /\ cpc = "ready"
    /\ WrapperOf(caller) # "none"
    /\ wrapper' = WrapperOf(caller)
    /\ attempt' = 0
    /\ wpc' = "loop"
    /\ result' = "pending"
    /\ cpc' = "awaiting"
    /\ UNCHANGED <<env, time, _last, caller, totals, rand, delay, log>>
    /\ EngineIdle

\* mutant: the loop makes one attempt more
in_range_inclusive(attempt_, max_retries) == attempt_ <= max_retries

\* for attempt in range(MAX_RETRIES)
in_range(attempt_, max_retries) == attempt_ < max_retries

\* one pass of the loop of a Task2 wrapper: _rate.wait(), the remote
\* operation, and the except clauses
Attempt ==
    /\ wpc = "loop"
    /\ wrapper \in Task2Wrappers
    /\ in_range(attempt, env.MAX_RETRIES)
    /\ \E o \in Outcomes, r \in WrapperJitters :
        LET t == wait_return
            invoked == log \o <<Event("wait", t, wrapper, CallNo, ""),
                                Event("invoke", t, wrapper, CallNo, o.name)>>
            d == _backoff_delay(attempt, env.RETRY_BASE_DELAY, r)
        IN  IF o = Ok THEN
                /\ time' = t
                /\ _last' = t
                /\ log' = invoked
                /\ result' = "value"
                /\ wpc' = "returned"
                /\ UNCHANGED <<attempt, rand, delay>>
            ELSE IF Catches(wrapper, o) /\ _is_rate_limit_error(o) THEN
                IF attempt >= env.MAX_RETRIES - 2 THEN
                    \* _cooldown()
                    /\ time' = t + env.COOLDOWN_ON_429
                    /\ _last' = 0
                    /\ log' = invoked \o
                            <<Event("cooldown", time', wrapper, CallNo, ""),
                              Event("reset", time', wrapper, CallNo, "")>>
                    /\ attempt' = attempt + 1
                    /\ UNCHANGED <<result, wpc, rand, delay>>
                ELSE
                    /\ rand' = r
                    /\ delay' = d
                    /\ time' = t + d
                    /\ _last' = t
                    /\ log' = Append(invoked,
                                     Event("backoff", time', wrapper, CallNo, ""))
                    /\ attempt' = attempt + 1
                    /\ UNCHANGED <<result, wpc>>
            ELSE
                \* raise
                /\ time' = t
                /\ _last' = t
                /\ log' = invoked
                /\ result' = "raised"
                /\ wpc' = "returned"
                /\ UNCHANGED <<attempt, rand, delay>>
    /\ UNCHANGED <<env, caller, cpc, totals, wrapper>>
    /\ EngineIdle

\* the loop is over and the function ends without a return statement
\* (gc_open_by_key_rl, ws_get) or with "return None" (line 232)
LoopExit ==
    /\ wpc = "loop"
    /\ wrapper \in Task2Wrappers
    /\ ~in_range(attempt, env.MAX_RETRIES)
    /\ result' = "None"
    /\ wpc' = "returned"
    /\ UNCHANGED <<env, time, _last, caller, cpc, totals, wrapper, attempt,
                   rand, delay, log>>
    /\ EngineIdle

\* @retry(wait=wait_exponential(multiplier=1, min=1, max=10))
wait_exponential(attempt_number) ==
    Max(1000, Min(1000 * Pow2(attempt_number - 1), 10000))

\* @retry(stop=stop_after_attempt(5))
stop_after_attempt(attempt_number) == attempt_number >= 5

\* one pass of the loop that @retry puts around _create_or_update_notion:
\* the call, and on any exception the stop test and the sleep
retry ==
    /\ wpc = "loop"
    /\ wrapper = "_create_or_update_notion"
    /\ \E o \in Outcomes :
        LET invoked == Append(log, Event("invoke", time, wrapper, CallNo, o.name))
        IN  IF o = Ok THEN
                /\ log' = invoked
                /\ result' = "value"
                /\ wpc' = "returned"
                /\ UNCHANGED <<time, attempt>>
            ELSE IF stop_after_attempt(attempt + 1) THEN
                \* raise RetryError
                /\ log' = invoked
                /\ result' = "raised"
                /\ wpc' = "returned"
                /\ UNCHANGED <<time, attempt>>
            ELSE
                /\ time' = time + wait_exponential(attempt + 1)
                /\ log' = Append(invoked,
                                 Event("backoff", time', wrapper, CallNo, ""))
                /\ attempt' = attempt + 1
                /\ UNCHANGED <<result, wpc>>
    /\ UNCHANGED <<env, _last, caller, cpc, totals, wrapper, rand, delay>>
    /\ EngineIdle

\* sum_views_in_child lines 481-484 and the row loop, lines 566-572: an
\* exception of the call gives None for the row; a Spreadsheet is read
\* and gives the row's total; the None of a call that ran out of attempts
\* goes to pick_child_ws, whose wrapper calls a method on it, and the
\* AttributeError is caught nowhere
sum_views_in_child ==
    /\ caller = "build_totals_from_tracker_output"
    /\ cpc = "awaiting"
    /\ wpc = "returned"
    /\ IF result = "None" THEN
            /\ cpc' = "crashed"
            /\ UNCHANGED totals
       ELSE
            /\ totals' = Append(totals, IF result = "raised" THEN "None"
                                        ELSE "total")
            /\ cpc' = IF Len(totals') = MaxRows THEN "done" ELSE "ready"
    /\ wpc' = "idle"
    /\ UNCHANGED <<env, time, _last, caller, wrapper, attempt, result, rand,
                   delay, log>>
    /\ EngineIdle

\* pick_child_ws lines 454-457: a worksheet is returned, an exception leaves
\* the function, and None ("if ws:" fails) goes on to the other tabs
pick_child_ws ==
    /\ caller = "pick_child_ws"
    /\ cpc = "awaiting"
    /\ wpc = "returned"
    /\ cpc' = CASE result = "value" -> "done"
                [] result = "raised" -> "crashed"
                [] OTHER -> "fallback"
    /\ wpc' = "idle"
    /\ UNCHANGED <<env, time, _last, caller, totals, wrapper, attempt, result,
                   rand, delay, log>>
    /\ EngineIdle

\* get_header_map lines 445-448: on any exception the header row is read
\* with ws.row_values(1)
get_header_map ==
    /\ caller = "get_header_map"
    /\ cpc = "awaiting"
    /\ wpc = "returned"
    /\ IF result = "raised" THEN
            \E o \in Outcomes :
                /\ log' = Append(log, Event("invoke", time, caller, CallNo, o.name))
                /\ cpc' = IF o = Ok THEN "done" ELSE "crashed"
       ELSE
            /\ cpc' = "done"
            /\ UNCHANGED log
    /\ wpc' = "idle"
    /\ UNCHANGED <<env, time, _last, caller, totals, wrapper, attempt, result,
                   rand, delay>>
    /\ EngineIdle

\* SyncEngine.run after self._create_or_update_notion(...): run has no
\* except clause
run_after_notion_call ==
    /\ caller = "SyncEngine.run"
    /\ cpc = "awaiting"
    /\ wpc = "returned"
    /\ cpc' = IF result = "raised" THEN "crashed" ELSE "done"
    /\ wpc' = "idle"
    /\ UNCHANGED <<env, time, _last, caller, totals, wrapper, attempt, result,
                   rand, delay, log>>
    /\ EngineIdle

\* SyncEngine.load_state: the adapters are called one after the other
load_state ==
    /\ caller = "SyncEngine.load_state"
    /\ cpc = "ready"
    /\ log' = log \o
            <<Event("invoke", time, "sheets.ensure_headers", CallNo, "ok"),
              Event("invoke", time, "sheets.get_all_rows", CallNo, "ok"),
              Event("invoke", time, "sheets.load_meta", CallNo, "ok"),
              Event("invoke", time, "notion.query_all_pages", CallNo, "ok")>>
    /\ cpc' = "done"
    /\ UNCHANGED <<env, time, _last, caller, totals, wrapper, attempt, wpc,
                   result, rand, delay>>
    /\ EngineIdle

NextWrapper ==
    \/ Call
    \/ Attempt
    \/ LoopExit
    \/ retry
    \/ sum_views_in_child
    \/ pick_child_ws
    \/ get_header_map
    \/ run_after_notion_call
    \/ load_state

SpecWrapper == InitWrapper /\ [][NextWrapper]_vars

\* a step that can be taken is taken
SpecWrapperFair == SpecWrapper /\ WF_vars(NextWrapper)

----------------------------------------------------------------------------
(* Claims about _RateLimiter (SpecLimiter) *)

\* the positions of the log at which wait() returned
WaitReturns == {i \in DOMAIN log : log[i].ev = "wait"}

\* i and j are two consecutive returns of wait()
ConsecutiveReturns(i, j) ==
    /\ i \in WaitReturns /\ j \in WaitReturns /\ i < j
    /\ \A m \in WaitReturns : ~(i < m /\ m < j)

\* C23, as amended: two consecutive returns of wait() with no reset()
\* between them are at least 60/r seconds apart.
C23_SpacingBetweenWaits ==
    \A i, j \in DOMAIN log :
        (ConsecutiveReturns(i, j) /\ \A m \in (i + 1)..(j - 1) : log[m].ev # "reset")
            => log[j].t - log[i].t >= min_interval(env.RPM_LIMIT)

\* C23 as stated: any two consecutive returns of wait() are at least 60/r
\* seconds apart, in every sequence of wait() and reset() calls.
C23_Original ==
    \A i, j \in DOMAIN log :
        ConsecutiveReturns(i, j)
            => log[j].t - log[i].t >= min_interval(env.RPM_LIMIT)

\* five calls of wait() back to back with r = 30: each pair is 2.0 s apart
C23_Witness ==
    /\ env.RPM_LIMIT = 30
    /\ Len(log) = 5
    /\ \A i \in 1..5 : log[i].ev = "wait"
    /\ \A i \in 1..4 : log[i + 1].t - log[i].t = 2000

----------------------------------------------------------------------------
(* Claims about the retrying calls (SpecWrapper, SpecWrapperFair) *)

\* the entries of the log that the wrapper made in its call number c
EventsOf(c) == {i \in DOMAIN log : log[i].call = c /\ log[i].by = wrapper}

\* the invocations of the remote operation within call c
Invocations(c) == {i \in EventsOf(c) : log[i].ev = "invoke"}

\* the sleeps between attempts within call c
Sleeps(c) == {i \in EventsOf(c) : log[i].ev \in {"backoff", "cooldown"}}
Cooldowns(c) == {i \in EventsOf(c) : log[i].ev = "cooldown"}

\* a Task2 wrapper has come back to its caller
Task2Returned == wpc = "returned" /\ wrapper \in Task2Wrappers

\* every attempt the loop allows was made and was answered by throttling
ThrottledThroughout ==
    /\ Task2Returned
    /\ attempt = env.MAX_RETRIES
    /\ \A i \in Invocations(CallNo) : log[i].out = "429"

\* C24: a wrapped call invokes the remote operation at most MAX_RETRIES
\* times, throttled on every attempt or not, and a call that has entered the
\* loop comes back to its caller.
C24_ThrottledCallEnds ==
    /\ [](wrapper \in Task2Wrappers =>
            \A c \in 1..(MaxRows + 1) :
                Cardinality(Invocations(c)) <= env.MAX_RETRIES)
    /\ (wpc = "loop" /\ wrapper \in Task2Wrappers) ~> (wpc = "returned")

\* three attempts of gc_open_by_key_rl, all throttled, and the call is back
C24_Witness ==
    /\ ThrottledThroughout
    /\ wrapper = "gc_open_by_key_rl"
    /\ env.MAX_RETRIES = 3
    /\ Cardinality(Invocations(CallNo)) = 3
    /\ result = "None"

\* C25: a call that was throttled on every attempt comes back to its caller
\* as an error, not as a value or as nothing, and the function that goes
\* through the tracker rows is not ended by it.
C25_ExhaustedCallFailsOneItem ==
    /\ ThrottledThroughout => result = "raised"
    /\ caller = "build_totals_from_tracker_output" => cpc # "crashed"

\* C26: a call throttled on every attempt makes exactly one cooldown, the
\* cooldown is followed by the reset of the limiter, and every sleep of a
\* call is followed by a further invocation within that call.
C26_OneCooldownThenRetry ==
    Task2Returned =>
        /\ Cardinality(Cooldowns(CallNo)) <= 1
        /\ ThrottledThroughout => Cardinality(Cooldowns(CallNo)) = 1
        /\ \A i \in Cooldowns(CallNo) :
                i < Len(log) /\ log[i + 1].ev = "reset"
        /\ \A i \in Sleeps(CallNo) : \E j \in Invocations(CallNo) : j > i

\* the functions that retry: the wrappers of Task2 and the engine's call
Wrappers == Task2Wrappers \cup {"_create_or_update_notion"}

\* C27: after an invocation by a wrapper that failed with an error other
\* than the throttling response, the wrapper makes no further invocation
\* and no sleep in that call, and the call raises.
C27_OtherErrorsNotRetried ==
    \A i \in DOMAIN log :
        (/\ log[i].ev = "invoke"
         /\ log[i].by \in Wrappers
         /\ log[i].out \notin {"ok", "429"})
            => /\ \A j \in DOMAIN log :
                    (j > i /\ log[j].call = log[i].call) => log[j].by # log[i].by
               /\ log[i].call = CallNo => result = "raised"

\* C29: every invocation of a remote operation is made by a wrapper of
\* Task2, right after a return of the limiter's wait().
C29_EveryRemoteCallWrapped ==
    \A i \in DOMAIN log :
        log[i].ev = "invoke"
            => /\ log[i].by \in Task2Wrappers
               /\ i > 1
               /\ log[i - 1].ev = "wait"
               /\ log[i - 1].t = log[i].t

----------------------------------------------------------------------------
(* Claims about _backoff_delay (SpecBackoff) *)

\* d * 2^k for the attempt and the base delay at hand, and the cap of 20 s
Uncapped == env.RETRY_BASE_DELAY * Pow2(attempt)
Cap == 20000

\* C28, as amended: for every attempt k >= 0 and base delay d, with the cap
\* c = 20 s, the delay computed by _backoff_delay lies in
\* [min(c, d * 2^k), min(c, d * 2^k) * 1.1].
C28_DelayWithinCappedInterval ==
    delay # NoDelay =>
        /\ Min(Cap, Uncapped) <= delay
        /\ 10 * delay <= 11 * Min(Cap, Uncapped)

\* C28 as stated: the delay lies in [d * 2^k, min(c, d * 2^k) * 1.1].
C28_Original ==
    delay # NoDelay =>
        /\ Uncapped <= delay
        /\ 10 * delay <= 11 * Min(Cap, Uncapped)

\* attempt 5 with a base delay of 1 s and the largest jitter drawn: 32 s are
\* capped to 20 s and the delay is 21.98 s
C28_Witness ==
    /\ attempt = 5
    /\ env.RETRY_BASE_DELAY = 1000
    /\ rand = 990
    /\ delay = 21980

----------------------------------------------------------------------------
(* SpecKeys: one run over keys that differ by blanks, a key of blanks only
   and an empty key cell *)

K_s == <<" ">>
KeyKeys == <<K_a, K_sa, K_s, EmptyStr>>

InitKeys ==
    /\ \E sel \in [DOMAIN KeyKeys -> SmallChoices] :
            \* the keys but the first: unused, only in Sheets, only in Notion
            /\ \A i \in (DOMAIN KeyKeys) \ {1} :
                    sel[i] \in {Absent, OnlyA, WithB(Absent, PyStr(T_y), 1)}
            \* the empty key cell is a title left empty in Notion
            /\ ~sel[4].a
            /\ InitStores(KeyKeys, sel)
            /\ NotServing
    /\ NotHashing
    /\ NotWrapping
    /\ direction \in Directions
    /\ dry_run \in BOOLEAN
    /\ conflict_strategy \in Strategies

SpecKeys == InitKeys /\ [][Next]_vars

----------------------------------------------------------------------------
(* Claims about keys (SpecKeys) *)

\* the keys of the two indices of the run under way
IndexKeys == (DOMAIN sheets_by_key) \cup (DOMAIN notion_by_key)

\* C30: no key of the indices is empty or made of blanks only, and a step of
\* the run that writes the worksheet for key k changes no row whose key cell
\* is not exactly k.
C30_KeysAreExactStrings ==
    /\ [](\A k \in IndexKeys : Strip(k) # EmptyStr)
    /\ [][worksheet' # worksheet =>
            \A i \in DOMAIN worksheet :
                worksheet'[i] # worksheet[i]
                    => worksheet[i][key_column] = PhaseList(pc)[idx]]_vars

----------------------------------------------------------------------------
(* Claims about the writes of a run (Spec) *)

\* the headers of the worksheet that the column mapping does not name
UnmappedHeaders == Range(Headers) \ Range(headers_of_mapping)

\* C31: a step that changes an existing row of the worksheet changes the row
\* of the key being written only and leaves its unmapped cells as they were,
\* and a step that changes an existing page changes one page only and keeps
\* its id.
C31_UpdateKeepsUnmappedFields ==
    [][/\ \A i \in DOMAIN worksheet :
            worksheet'[i] # worksheet[i]
                => /\ worksheet[i][key_column] = PhaseList(pc)[idx]
                   /\ \A h \in UnmappedHeaders : worksheet'[i][h] = worksheet[i][h]
       /\ \A i, j \in DOMAIN pages :
            (pages'[i] # pages[i] /\ pages'[j] # pages[j])
                => i = j /\ pages'[i].id = pages[i].id]_vars


----------------------------------------------------------------------------
(* SpecStale: one run on stores of two keys whose baseline may record the
   page that held the key at the last sync while another page holds it now
   (the pages were renamed or replaced in Notion between two runs) *)

StaleKeys == <<K_a, K_b>>

InitStale ==
    /\ \E sel \in [DOMAIN StaleKeys -> FullChoices \cup SmallChoices] :
            /\ sel[1] \in FullChoices
            /\ sel[2] \in SmallChoices
            /\ InitStores(StaleKeys, sel)
            /\ NotServing
    /\ NotHashing
    /\ NotWrapping
    /\ direction \in Directions
    /\ dry_run \in BOOLEAN
    /\ conflict_strategy \in Strategies

\* Notion between two runs: an editor moves the contents of every page to
\* the next page, which stamps them all; the baseline is not touched
RenamePages ==
    /\ pc = "start"
    /\ nclock = MaxRev
    /\ Len(pages) > 1
    /\ pages' = [i \in DOMAIN pages |->
                    [pages[i] EXCEPT !.properties = pages[(i % Len(pages)) + 1].properties,
                                     !.last_edited_time = nclock + 1]]
    /\ nclock' = nclock + 1
    /\ UNCHANGED <<worksheet, meta_sheet, pc, idx, summary>>
    /\ UNCHANGED RunConst

NextStale == Next \/ RenamePages

SpecStale == InitStale /\ [][NextStale]_vars

\* C38: a step of the updates of Notion or of the conflicts loop that writes
\* a page writes the page that the Notion snapshot of this run indexes
\* under the key of the iteration, whatever page id the baseline records
C38_UpdateGoesToSnapshotPage ==
    [][(pc \in {"update_notion", "conflicts"} /\ pages' # pages)
          => \A i \in DOMAIN pages :
                pages'[i] # pages[i]
                    => pages[i].id = notion_by_key[PhaseList(pc)[idx]].page_id]_vars

----------------------------------------------------------------------------
(* SpecEdits: two consecutive runs on stores of two keys, with an editor
   outside the program who changes a record of a store between the snapshot
   of the first run and the run's write of that record *)

EditKeys == <<K_a, K_b>>
T_e == <<"e">>

InitEdits ==
    /\ \E sel \in [DOMAIN EditKeys -> FullChoices \cup SmallChoices] :
            /\ sel[1] \in FullChoices
            /\ sel[2] \in {Absent, OnlyA, WithB(Absent, PyStr(T_y), 1)}
            /\ InitStores(EditKeys, sel)
    /\ NotServing
    /\ NotHashing
    /\ NotWrapping
    /\ direction \in Directions
    /\ dry_run = FALSE
    /\ conflict_strategy \in Strategies

\* the store the iterations of loop p write, "none" when they only report
TargetOf(p) ==
    CASE p \in {"create_sheets", "update_sheets"} -> "sheets"
      [] p \in {"create_notion", "update_notion"} -> "notion"
      [] p = "conflicts" ->
            IF conflict_strategy = "notion_wins" /\ direction \in {"both", "to-sheets"}
                THEN "sheets"
            ELSE IF conflict_strategy = "sheets_wins" /\ direction \in {"both", "to-notion"}
                THEN "notion"
            ELSE "none"

\* the keys the run has still to write to a store
StillToWrite(store) ==
    LET at == CHOOSE i \in DOMAIN Phases : Phases[i] = pc
    IN  UNION {{PhaseList(Phases[i])[j] :
                    j \in (IF i = at THEN idx ELSE 1)..Len(PhaseList(Phases[i]))}
               : i \in {n \in at..Len(Phases) :
                            PhaseEnabled(Phases[n]) /\ TargetOf(Phases[n]) = store}}

\* someone edits the row of key k in the worksheet while run is under way
EditRow ==
    /\ pc \in Range(Phases)
    /\ edited = <<>>
    /\ ended = <<>>
    /\ \E i \in DOMAIN worksheet :
            /\ worksheet[i][key_column] \in StillToWrite("sheets")
            /\ worksheet' = [worksheet EXCEPT ![i]["Val"] = T_e]
            /\ edited' = <<[store |-> "sheets", key |-> worksheet[i][key_column]]>>
    /\ UNCHANGED <<meta_sheet, pages, nclock, pc, idx, summary, direction,
                   dry_run, conflict_strategy, sheets_by_key, notion_by_key,
                   meta_map, diff, ended, hash_rows, hash_digests, wrapvars,
                   reports, clientvars>>

\* someone edits the page of key k in Notion while run is under way; Notion
\* stamps the page
EditPage ==
    /\ pc \in Range(Phases)
    /\ edited = <<>>
    /\ ended = <<>>
    /\ \E i \in DOMAIN pages :
            /\ pages[i].properties[key_column].text \in StillToWrite("notion")
            /\ pages' = [pages EXCEPT ![i].properties["Val"] = PyStr(T_e),
                                      ![i].last_edited_time = nclock + 1]
            /\ edited' = <<[store |-> "notion",
                            key |-> pages[i].properties[key_column].text]>>
    /\ nclock' = nclock + 1
    /\ UNCHANGED <<worksheet, meta_sheet, pc, idx, summary, direction,
                   dry_run, conflict_strategy, sheets_by_key, notion_by_key,
                   meta_map, diff, ended, hash_rows, hash_digests, wrapvars,
                   reports, clientvars>>

NextEdits == NextTwoRuns \/ EditRow \/ EditPage

SpecEdits == InitEdits /\ [][NextEdits]_vars

\* the edit e is in the given worksheet and pages
EditPresent(e, ws, ps) ==
    IF e.store = "sheets"
        THEN \E i \in DOMAIN ws : ws[i][key_column] = e.key /\ ws[i]["Val"] = T_e
        ELSE \E i \in DOMAIN ps :
                /\ ps[i].properties[key_column] = PyStr(e.key)
                /\ ps[i].properties["Val"] = PyStr(T_e)

\* C37: when a record of the store about to be written was edited from
\* outside between the snapshot of a run and the run's write of its key, and
\* that run and the next one have returned, then the edit was still in the
\* store after the run of the edit, or that run reported the key as a
\* conflict, or the next run did.
C37_NoSilentLostUpdate ==
    \A n \in DOMAIN edited :
        (pc = "done" /\ ended = <<"done">>)
            => \/ EditPresent(edited[n], reports[1].worksheet, reports[1].pages)
               \/ edited[n].key \in Range(reports[1].conflicts)
               \/ edited[n].key \in Range(summary.conflicts)

----------------------------------------------------------------------------
(* SpecEnsure: SheetsWrapper.ensure_headers and SheetsClient.ensure_columns
   called up to MaxEnsures times on a header row *)

MaxEnsures == 2

N_A == <<"A">>
N_B == <<"B">>
N_sB == <<" ", "B">>

\* row 1 as the API returns it (row_values(1), get_values("1:1")[0]):
\* the cells up to the last one that is not empty
row_values(cells) ==
    LET used == {i \in DOMAIN cells : cells[i] # EmptyStr}
    IN  IF used = {} THEN <<>>
        ELSE SubSeq(cells, 1, CHOOSE i \in used : \A j \in used : j <= i)

\* worksheet.update("A1:<end>", [values]): the cells after the write
update_header(cells, values) ==
    [i \in 1..Max(Len(cells), Len(values)) |->
        IF i <= Len(values) THEN values[i] ELSE cells[i]]

\* sheets_wrapper.py lines 59-69: the header row to write, or the current
\* one when nothing is written
ensure_headers_row(cells, headers) ==
    LET current == row_values(cells)
        header_set == {h \in Range(current) : h # EmptyStr}
        missing == SelectSeq(headers, LAMBDA h : h \notin header_set)
    IN  IF current = <<>> THEN headers ELSE current \o missing

ensure_headers_writes(cells, headers) ==
    \/ row_values(cells) = <<>>
    \/ \E i \in DOMAIN headers :
            headers[i] \notin {h \in Range(row_values(cells)) : h # EmptyStr}

\* sheets_client.py lines 21-25
get_header(cells) ==
    [i \in DOMAIN row_values(cells) |-> Strip(row_values(cells)[i])]

\* sheets_client.py lines 33-37: the loop over required_columns
RECURSIVE append_missing(_, _, _)
append_missing(header, existing, required) ==
    IF required = <<>> THEN header
    ELSE IF Head(required) \in existing
        THEN append_missing(header, existing, Tail(required))
    ELSE append_missing(Append(header, Head(required)),
                        existing \cup {Head(required)}, Tail(required))

\* sheets_client.py lines 27-42: the header ensure_columns returns
ensure_columns_row(cells, required_columns) ==
    append_missing(get_header(cells),
                   {h \in Range(get_header(cells)) : h # EmptyStr},
                   required_columns)

\* the header rows a worksheet starts with and the lists of names asked for
HeaderRows ==
    {<<>>, <<N_A>>, <<N_A, N_B>>, <<N_B, N_A>>, <<N_A, EmptyStr, N_B>>,
     <<N_sB>>, <<N_A, N_sB>>}
NameLists ==
    LET names == {N_A, N_B, N_sB, EmptyStr}
    IN  {<<n>> : n \in names} \cup {<<n, m>> : n, m \in names}

InitEnsure ==
    /\ InitStores(<<>>, <<>>)
    /\ NotHashing
    /\ NotWrapping
    /\ direction = "both"
    /\ dry_run = TRUE
    /\ conflict_strategy = "fail"
    /\ ws_header \in HeaderRows
    /\ ensured = <<>>
    /\ NotListing
    /\ NotConverting
    /\ NotSyncing

\* what every call on a header row leaves alone
EnsureFrame ==
    /\ NoRun
    /\ UNCHANGED wrapvars
    /\ UNCHANGED <<listvars, codecvars, syncvars>>

\* SheetsWrapper.ensure_headers(headers)
ensure_headers ==
    /\ Len(ensured) < MaxEnsures
    /\ pc = "start"
    /\ \A i \in DOMAIN ensured : ensured[i].op = "ensure_headers"
    /\ \E headers \in NameLists :
            LET wrote == ensure_headers_writes(ws_header, headers)
                after == IF wrote
                            THEN row_values(update_header(ws_header,
                                    ensure_headers_row(ws_header, headers)))
                            ELSE ws_header
            IN  /\ ws_header' = after
                /\ ensured' = Append(ensured,
                        [op |-> "ensure_headers", names |-> headers,
                         before |-> ws_header, after |-> after, wrote |-> wrote])
    /\ EnsureFrame

\* SheetsClient.ensure_columns(required_columns)
ensure_columns ==
    /\ Len(ensured) < MaxEnsures
    /\ pc = "start"
    /\ \A i \in DOMAIN ensured : ensured[i].op = "ensure_columns"
    /\ \E required_columns \in NameLists :
            LET header == ensure_columns_row(ws_header, required_columns)
                changed == header # get_header(ws_header)
                after == IF changed THEN row_values(update_header(ws_header, header))
                         ELSE ws_header
            IN  /\ ws_header' = after
                /\ ensured' = Append(ensured,
                        [op |-> "ensure_columns", names |-> required_columns,
                         before |-> ws_header, after |-> after, wrote |-> changed])
    /\ EnsureFrame

NextEnsure == ensure_headers \/ ensure_columns

SpecEnsure == InitEnsure /\ [][NextEnsure]_vars

\* C33: after each ensure_headers / ensure_columns call every requested name
\* is a cell of the header row and every cell the row had before the call
\* holds the same name at its position (names compared without surrounding
\* blanks, as get_header reads them), and a call that asks for the names of
\* the call before it writes nothing.
C33_EnsureIsAdditiveAndIdempotent ==
    \A n \in DOMAIN ensured :
        /\ \A h \in Range(ensured[n].names) :
                \E i \in DOMAIN ensured[n].after : Strip(ensured[n].after[i]) = Strip(h)
        /\ Len(ensured[n].before) <= Len(ensured[n].after)
        /\ \A i \in DOMAIN ensured[n].before :
                Strip(ensured[n].after[i]) = Strip(ensured[n].before[i])
        /\ (n > 1 /\ ensured[n].names = ensured[n - 1].names)
                => ~ensured[n].wrote

----------------------------------------------------------------------------
(* SpecList: NotionWrapper.query_all_pages and
   NotionClientWrapper.list_all_pages called up to MaxLists times on a Notion
   database that serves its records in a finite number of responses *)

MaxLists == 2

\* the responses a database of up to three records is served in, in order
Remotes ==
    {<<>>, <<<<1>>>>, <<<<1, 2>>>>, <<<<1>>, <<2>>>>, <<<<1, 2, 3>>>>,
     <<<<1, 2>>, <<3>>>>, <<<<1>>, <<2, 3>>>>, <<<<1>>, <<2>>, <<3>>>>}

\* client.databases.query(start_cursor=cursor) on that database
databases_query(remote, cursor) ==
    LET at == IF cursor = NoCursor THEN 1 ELSE cursor
    IN  [results |-> IF at \in DOMAIN remote THEN remote[at] ELSE <<>>,
         has_more |-> at < Len(remote),
         next_cursor |-> IF at < Len(remote) THEN at + 1 ELSE NoCursor]

\* mutant: the records of a response replace those gathered so far
extend_replaces(gathered, resp) == resp.results

\* pages.extend(resp.get("results", []))
extend(gathered, resp) == gathered \o resp.results

InitList ==
    /\ InitStores(<<>>, <<>>)
    /\ NotHashing
    /\ NotWrapping
    /\ direction = "both"
    /\ dry_run = TRUE
    /\ conflict_strategy = "fail"
    /\ NotEnsuring
    /\ NotConverting
    /\ NotSyncing
    /\ batches \in Remotes
    /\ lister = "none"
    /\ lpc = "idle"
    /\ start_cursor = NoCursor
    /\ has_more = TRUE
    /\ results = <<>>
    /\ returned = <<>>

ListFrame ==
    /\ NoRun
    /\ UNCHANGED wrapvars
    /\ UNCHANGED <<ensurevars, codecvars, syncvars>>

\* the database changes between two listing calls
RemoteChanges ==
    /\ lister = "none"
    /\ returned # <<>>
    /\ Len(returned) < MaxLists
    /\ batches' \in Remotes \ {batches}
    /\ UNCHANGED <<lister, lpc, start_cursor, has_more, results, returned>>
    /\ ListFrame

\* a listing function is called: its locals as lines 14-15 / 17-19 set them
ListCall ==
    /\ lister = "none"
    /\ pc = "start"
    /\ Len(returned) < MaxLists
    /\ lister' \in {"query_all_pages", "list_all_pages"}
    /\ lpc' = "loop"
    /\ start_cursor' = NoCursor
    /\ has_more' = TRUE
    /\ results' = <<>>
    /\ UNCHANGED <<batches, returned>>
    /\ ListFrame

\* notion_wrapper.py lines 16-21: one iteration of while True
query_all_pages ==
    /\ lister = "query_all_pages"
    /\ lpc = "loop"
    /\ LET resp == databases_query(batches, start_cursor)
       IN  /\ results' = extend(results, resp)
           /\ IF ~resp.has_more
                 THEN lpc' = "break" /\ start_cursor' = start_cursor
                 ELSE lpc' = lpc /\ start_cursor' = resp.next_cursor
    /\ UNCHANGED <<batches, lister, has_more, returned>>
    /\ ListFrame

\* notion_client.py lines 20-28: one iteration of while has_more
list_all_pages ==
    /\ lister = "list_all_pages"
    /\ lpc = "loop"
    /\ has_more
    /\ LET resp == databases_query(batches, start_cursor)
       IN  /\ results' = extend(results, resp)
           /\ has_more' = resp.has_more
           /\ start_cursor' = resp.next_cursor
    /\ UNCHANGED <<batches, lister, lpc, returned>>
    /\ ListFrame

\* the loop is left and the gathered records are returned (lines 22 / 29)
ListReturn ==
    /\ \/ lister = "query_all_pages" /\ lpc = "break"
       \/ lister = "list_all_pages" /\ lpc = "loop" /\ ~has_more
    /\ returned' = Append(returned, [by |-> lister, records |-> results,
                                     remote |-> batches])
    /\ lister' = "none"
    /\ lpc' = "idle"
    /\ UNCHANGED <<batches, start_cursor, has_more, results>>
    /\ ListFrame

NextList ==
    \/ ListCall
    \/ query_all_pages
    \/ list_all_pages
    \/ ListReturn
    \/ RemoteChanges

SpecList == InitList /\ [][NextList]_vars

\* a call that is under way goes on: nothing but its own steps is enabled
SpecListFair == SpecList /\ WF_vars(NextList)

RECURSIVE Flatten(_)
Flatten(seqs) == IF seqs = <<>> THEN <<>> ELSE Head(seqs) \o Flatten(Tail(seqs))

\* C34: every query_all_pages / list_all_pages call returns, and what it
\* returns is the records of all the responses the database is served in
\* at the time of the call, each once and in the order served, also when
\* the database changed since the call before; while the call is under way
\* the records gathered are those of the responses before the cursor.
C34_ListAllIsPaginatedAndFinite ==
    /\ [](\A n \in DOMAIN returned :
                returned[n].records = Flatten(returned[n].remote))
    /\ []((lister # "none" /\ lpc = "loop" /\ start_cursor # NoCursor)
            => results = Flatten(SubSeq(batches, 1, start_cursor - 1)))
    /\ (lister # "none") ~> (lister = "none")

\* a second call has returned the three records of a database served in
\* three responses, after a first call on a different database
C34_Witness ==
    /\ Len(returned) = 2
    /\ returned[2].remote = <<<<1>>, <<2>>, <<3>>>>
    /\ returned[2].records = <<1, 2, 3>>
    /\ returned[1].remote # returned[2].remote
    /\ lister = "none"

----------------------------------------------------------------------------
(* SpecCodec: the two conversions of a tabular value to a Notion checkbox,
   NotionWrapper.build_property_value("checkbox", value) and
   sheet_value_to_notion_property(value, "checkbox"), on the same value *)

\* the letters the texts below are written with
UpperCase == <<"A", "C", "D", "E", "F", "H", "K", "L", "N", "O", "R", "S",
               "T", "U", "X", "Y">>
LowerCase == <<"a", "c", "d", "e", "f", "h", "k", "l", "n", "o", "r", "s",
               "t", "u", "x", "y">>

\* str.lower() and str.upper()
lower(t) ==
    [i \in DOMAIN t |->
        IF \E j \in DOMAIN UpperCase : UpperCase[j] = t[i]
            THEN LowerCase[CHOOSE j \in DOMAIN UpperCase : UpperCase[j] = t[i]]
            ELSE t[i]]
upper(t) ==
    [i \in DOMAIN t |->
        IF \E j \in DOMAIN LowerCase : LowerCase[j] = t[i]
            THEN UpperCase[CHOOSE j \in DOMAIN LowerCase : LowerCase[j] = t[i]]
            ELSE t[i]]

W_true == <<"t", "r", "u", "e">>
W_1 == <<"1">>
W_yes == <<"y", "e", "s">>
W_y == <<"y">>
W_t == <<"t">>
W_checked == <<"c", "h", "e", "c", "k", "e", "d">>
W_false == <<"f", "a", "l", "s", "e">>

\* notion_wrapper.py lines 97-100
build_property_value_checkbox(v) ==
    LET lowered == IF v.kind # "none" THEN lower(Strip(str(v))) ELSE W_false
    IN  lowered \in {W_true, W_1, W_yes, W_y, W_t}

\* mapping.py lines 72-80: a str is stripped, lowered and looked up, a
\* number is taken by its truth value, anything else is False
sheet_value_to_notion_property_checkbox(v) ==
    IF v.kind = "str"
        THEN lower(Strip(str(v))) \in {W_true, W_1, W_yes, W_y, W_checked}
    ELSE IF v.kind = "int" THEN str(v) # <<"0">>
    ELSE FALSE

\* the values a cell or a row dict can hand over: texts in lower and upper
\* case, bare and with a blank before or after, numbers, and None
CodecWords ==
    {W_true, W_1, W_yes, W_y, W_t, W_checked, W_false, <<"0">>, <<"n", "o">>,
     <<"o", "n">>, <<"o", "f", "f">>, <<"x">>, EmptyStr}
CodecValues ==
    {None} \cup {PyInt(<<"0">>), PyInt(W_1), PyInt(<<"7">>)}
        \cup {PyStr(t) : t \in UNION {{w, upper(w), <<" ">> \o w, w \o <<" ">>,
                                        <<" ">> \o upper(w)} : w \in CodecWords}}

InitCodec ==
    /\ InitStores(<<>>, <<>>)
    /\ NotHashing
    /\ NotWrapping
    /\ direction = "both"
    /\ dry_run = TRUE
    /\ conflict_strategy = "fail"
    /\ NotEnsuring
    /\ NotListing
    /\ NotSyncing
    /\ cell_value \in CodecValues
    /\ checkbox = <<>>

\* the value is converted on both paths
Convert ==
    /\ pc = "start"
    /\ checkbox = <<>>
    /\ checkbox' = [build_property_value |-> build_property_value_checkbox(cell_value),
                    sheet_value_to_notion_property |->
                        sheet_value_to_notion_property_checkbox(cell_value)]
    /\ UNCHANGED <<cell_value, ensurevars, listvars, syncvars>>
    /\ NoRun
    /\ UNCHANGED wrapvars

NextCodec == Convert

SpecCodec == InitCodec /\ [][NextCodec]_vars

\* the codec of the claim: true for the five texts in any case, false for
\* every other input; a blank around the text is not held against the code
CodecTrue(v) ==
    /\ v.kind # "none"
    /\ lower(Strip(str(v))) \in {W_true, W_1, W_yes, W_y, W_t}

\* C35: on both conversion paths the checkbox made of a value is true
\* exactly when the value's text is, whatever its case, one of "true", "1",
\* "yes", "y", "t", and false for every other value, None and "" included.
C35_BooleanCodec ==
    checkbox # <<>> =>
        /\ checkbox.build_property_value = CodecTrue(cell_value)
        /\ checkbox.sheet_value_to_notion_property = CodecTrue(cell_value)

----------------------------------------------------------------------------
(* sync_service.py, sheets_client.py, notion_client.py, mapping.py:
   SyncService.two_way_sync.  A row of the worksheet is a record of its
   sync id cell, its updated-at cell and one mapped data cell; a page holds
   the same three properties.  A marker is the text of the cell or the
   property: empty, an ISO 8601 instant (in milliseconds) or other text. *)

MaxSyncs == 2

\* the empty sync id cell, which _row_sync_id / _page_sync_id turn into None
NoSid == 0

\* one second, the precision to_iso_datetime writes
Second == 1000

NoMark == [kind |-> "none", t |-> 0]
Junk == [kind |-> "junk", t |-> 0]
Iso(t) == [kind |-> "iso", t |-> t]

\* None as a datetime
NoTime == 0 - 1

\* mapping.py lines 7-16: None for an empty or unparsable text
parse_iso_datetime(m) == IF m.kind = "iso" THEN m.t ELSE NoTime

\* mapping.py lines 19-23: the microseconds are dropped
to_iso_datetime(dt) == Iso(dt - (dt % Second))

\* str(uuid4()) of the n-th call: a value no store holds
uuid4(n) == 100 + n

\* mutant: the Sheets side wins a tie
sheets_newer_or_equal(s_updated, n_updated) ==
    \/ s_updated # NoTime /\ n_updated # NoTime /\ s_updated >= n_updated
    \/ s_updated # NoTime /\ n_updated = NoTime

\* sync_service.py line 108
sheets_newer(s_updated, n_updated) ==
    \/ s_updated # NoTime /\ n_updated # NoTime /\ s_updated > n_updated
    \/ s_updated # NoTime /\ n_updated = NoTime

\* sync_service.py line 113
notion_newer(s_updated, n_updated) ==
    \/ n_updated # NoTime /\ s_updated # NoTime /\ n_updated > s_updated
    \/ n_updated # NoTime /\ s_updated = NoTime

\* SheetsClient.fetch_all_with_row_numbers: the data rows, numbered from 2
fetch_all_with_row_numbers(rows) ==
    [i \in DOMAIN rows |->
        [sid |-> rows[i].sid, updated |-> rows[i].updated, val |-> rows[i].val,
         _row_number |-> i + 1]]

\* lines 73-89: the dict of the rows that have a sync id, a later row
\* replacing an earlier one with the same id, and its keys in dict order
by_sync(rows) ==
    [sid \in {rows[i].sid : i \in DOMAIN rows} \ {NoSid} |->
        rows[CHOOSE i \in DOMAIN rows :
                /\ rows[i].sid = sid
                /\ \A j \in DOMAIN rows : rows[j].sid = sid => j <= i]]
sync_ids(rows) ==
    LET first == SelectSeq(IndexSeq(Len(rows)),
                    LAMBDA i : /\ rows[i].sid # NoSid
                               /\ \A j \in 1..(i - 1) : rows[j].sid # rows[i].sid)
    IN  [k \in DOMAIN first |-> rows[first[k]].sid]
unsynced(rows) == SelectSeq(rows, LAMBDA r : r.sid = NoSid)

\* lines 96-123: what the loop queues for one sync id of the worksheet
reconcile(srow, by_sync_notion, now) ==
    LET s_updated == parse_iso_datetime(srow.updated)
        nrow == by_sync_notion[srow.sid]
        n_updated == parse_iso_datetime(nrow.updated)
    IN  IF srow.sid \notin DOMAIN by_sync_notion
            THEN [to |-> "notion",
                  item |-> [page_id |-> NoPage,
                            props |-> [sid |-> srow.sid, val |-> srow.val,
                                       updated |-> to_iso_datetime(
                                            IF s_updated # NoTime THEN s_updated
                                            ELSE now)]]]
        ELSE IF sheets_newer(s_updated, n_updated)
            THEN [to |-> "notion",
                  item |-> [page_id |-> nrow._page_id,
                            props |-> [sid |-> srow.sid, val |-> srow.val,
                                       updated |-> to_iso_datetime(s_updated)]]]
        ELSE IF notion_newer(s_updated, n_updated)
            THEN [to |-> "sheet",
                  item |-> [row_number |-> srow._row_number,
                            row |-> [sid |-> srow.sid, val |-> nrow.val,
                                     updated |-> to_iso_datetime(n_updated)]]]
        ELSE [to |-> "none"]

\* the items queued for one target, in loop order
queued(recs, target) ==
    LET sel == SelectSeq(recs, LAMBDA r : r.to = target)
    IN  [i \in DOMAIN sel |-> sel[i].item]

\* lines 96-169: the three lists two_way_sync has built before it applies
\* them; now is the clock of the run and later the clock at line 168
queues(srows, nrows, now, later, made) ==
    LET by_sync_sheet == by_sync(srows)
        by_sync_notion == by_sync(nrows)
        unsynced_sheet == unsynced(srows)
        unsynced_notion == unsynced(nrows)
        sids == sync_ids(srows)
        recs == [i \in DOMAIN sids |->
                    reconcile(by_sync_sheet[sids[i]], by_sync_notion, now)]
        only_notion == SelectSeq(sync_ids(nrows),
                            LAMBDA sid : sid \notin DOMAIN by_sync_sheet)
        now_iso == to_iso_datetime(now)
        sheet_sid(j) == uuid4(made + j)
        notion_sid(j) == uuid4(made + Len(unsynced_sheet) + j)
    IN  [updates_to_sheet |->
            queued(recs, "sheet") \o
            [j \in DOMAIN unsynced_sheet |->
                [row_number |-> unsynced_sheet[j]._row_number,
                 row |-> [sid |-> sheet_sid(j), updated |-> now_iso,
                          val |-> unsynced_sheet[j].val]]],
         appends_to_sheet |->
            [i \in DOMAIN only_notion |->
                LET nrow == by_sync_notion[only_notion[i]]
                    n_updated == parse_iso_datetime(nrow.updated)
                IN  [sid |-> only_notion[i], val |-> nrow.val,
                     updated |-> to_iso_datetime(
                            IF n_updated # NoTime THEN n_updated ELSE now)]] \o
            [j \in DOMAIN unsynced_notion |->
                [sid |-> notion_sid(j), val |-> unsynced_notion[j].val,
                 updated |-> to_iso_datetime(later)]],
         upserts_to_notion |->
            queued(recs, "notion") \o
            [j \in DOMAIN unsynced_sheet |->
                [page_id |-> NoPage,
                 props |-> [sid |-> sheet_sid(j), val |-> unsynced_sheet[j].val,
                            updated |-> now_iso]]] \o
            [j \in DOMAIN unsynced_notion |->
                [page_id |-> unsynced_notion[j]._page_id,
                 props |-> [sid |-> notion_sid(j), updated |-> now_iso]]]]

\* mutant: the queued updates of rows are not written
update_rows_skipped(rows, updates) == rows

\* SheetsClient.update_row for each queued update, in order
RECURSIVE update_rows(_, _)
update_rows(rows, updates) ==
    IF updates = <<>> THEN rows
    ELSE update_rows([rows EXCEPT ![Head(updates).row_number - 1] = Head(updates).row],
                     Tail(updates))

\* NotionClientWrapper.upsert_page for each queued upsert, in order: a page
\* is created, or the properties sent replace those of the page
RECURSIVE upsert_pages(_, _)
upsert_pages(ps, upserts) ==
    IF upserts = <<>> THEN ps
    ELSE LET u == Head(upserts)
             made == [_page_id |-> Len(ps) + 1, sid |-> u.props.sid,
                      updated |-> u.props.updated, val |-> u.props.val]
         IN  upsert_pages(
                IF u.page_id = NoPage THEN Append(ps, made)
                ELSE [i \in DOMAIN ps |->
                        IF ps[i]._page_id = u.page_id
                            THEN [f \in DOMAIN ps[i] |->
                                    IF f \in DOMAIN u.props THEN u.props[f]
                                    ELSE ps[i][f]]
                            ELSE ps[i]],
                Tail(upserts))

\* the markers and records a store may hold before the first sync
OldMarkers ==
    {NoMark, Junk, Iso(Epoch - 3 * Second), Iso(Epoch - 3 * Second + 500),
     Iso(Epoch - 2 * Second)}
SyncStores(v) ==
    LET first == [sid : {NoSid, 1}, updated : OldMarkers, val : {v}]
        second == [sid : {NoSid, 2}, updated : {NoMark, Iso(Epoch - 3 * Second)},
                   val : {v}]
    IN  {<<>>} \cup {<<r>> : r \in first} \cup {<<r, q>> : r \in first, q \in second}

InitSync ==
    /\ InitStores(<<>>, <<>>)
    /\ NotHashing
    /\ NotWrapping
    /\ direction = "both"
    /\ dry_run = TRUE
    /\ conflict_strategy = "fail"
    /\ NotEnsuring
    /\ NotListing
    /\ NotConverting
    /\ ws_rows \in SyncStores(T_x)
    /\ db_pages \in {[i \in DOMAIN ps |->
                        [_page_id |-> i, sid |-> ps[i].sid,
                         updated |-> ps[i].updated, val |-> ps[i].val]]
                     : ps \in SyncStores(T_y)}
    /\ wall = Epoch
    /\ uuids = 0
    /\ spc = "idle"
    /\ sheet_rows = <<>>
    /\ notion_rows = <<>>
    /\ updates_to_sheet = <<>>
    /\ appends_to_sheet = <<>>
    /\ upserts_to_notion = <<>>
    /\ synced = <<>>

SyncFrame ==
    /\ NoRun
    /\ UNCHANGED wrapvars
    /\ UNCHANGED <<ensurevars, listvars, codecvars>>

\* lines 63-169: the stores are read and the three lists are built; the
\* clock may pass a full second between lines 159 and 168
Reconcile ==
    /\ spc = "idle"
    /\ pc = "start"
    /\ sheet_rows' = fetch_all_with_row_numbers(ws_rows)
    /\ notion_rows' = db_pages
    /\ \E elapsed \in {0, Second} :
            LET q == queues(sheet_rows', notion_rows', wall, wall + elapsed, uuids)
            IN  /\ updates_to_sheet' = q.updates_to_sheet
                /\ appends_to_sheet' = q.appends_to_sheet
                /\ upserts_to_notion' = q.upserts_to_notion
                /\ wall' = wall + elapsed
    /\ uuids' = uuids + Len(unsynced(sheet_rows')) + Len(unsynced(notion_rows'))
    /\ spc' = "apply"
    /\ UNCHANGED <<ws_rows, db_pages, synced>>
    /\ SyncFrame

\* lines 172-184: every queued write is made and the counts are returned
Apply ==
    /\ spc = "apply"
    /\ ws_rows' = update_rows(ws_rows, updates_to_sheet) \o appends_to_sheet
    /\ db_pages' = upsert_pages(db_pages, upserts_to_notion)
    /\ synced' = Append(synced,
                    [updated_sheet_rows |-> Len(updates_to_sheet),
                     appended_sheet_rows |-> Len(appends_to_sheet),
                     upserted_notion_pages |-> Len(upserts_to_notion)])
    /\ spc' = "done"
    /\ UNCHANGED <<wall, uuids, sheet_rows, notion_rows, updates_to_sheet,
                   appends_to_sheet, upserts_to_notion>>
    /\ SyncFrame

\* two_way_sync is called again, later, with no change to either store
SyncAgain ==
    /\ spc = "done"
    /\ Len(synced) < MaxSyncs
    /\ spc' = "idle"
    /\ wall' = wall + 2 * Second
    /\ sheet_rows' = <<>>
    /\ notion_rows' = <<>>
    /\ updates_to_sheet' = <<>>
    /\ appends_to_sheet' = <<>>
    /\ upserts_to_notion' = <<>>
    /\ UNCHANGED <<ws_rows, db_pages, uuids, synced>>
    /\ SyncFrame

NextSync == Reconcile \/ Apply \/ SyncAgain

SpecSync == InitSync /\ [][NextSync]_vars

----------------------------------------------------------------------------
(* Claims about SyncService.two_way_sync (SpecSync) *)

\* the lists of this call have been built
Reconciled == spc \in {"apply", "done"}

\* the sync ids this call found in both stores
InBothStores == DOMAIN by_sync(sheet_rows) \cap DOMAIN by_sync(notion_rows)

\* the markers of sync id sid as parse_iso_datetime reads them
SheetMarker(sid) == parse_iso_datetime(by_sync(sheet_rows)[sid].updated)
NotionMarker(sid) == parse_iso_datetime(by_sync(notion_rows)[sid].updated)

\* the writes queued for the page and for the row of sync id sid
NotionUpserts(sid) ==
    {i \in DOMAIN upserts_to_notion :
        upserts_to_notion[i].page_id = by_sync(notion_rows)[sid]._page_id}
SheetUpdates(sid) ==
    {i \in DOMAIN updates_to_sheet :
        updates_to_sheet[i].row_number = by_sync(sheet_rows)[sid]._row_number}

\* C39: for a sync id found in both stores, an upsert of its page with the
\* values of the row is queued exactly when the Sheets marker is strictly
\* newer than the Notion marker or only Sheets has a marker; an update of its
\* row with the values of the page is queued exactly when the Notion marker
\* is strictly newer or only Notion has one; with equal markers or none
\* nothing is queued for the id; never both.  A marker is an updated-at
\* text that parses as an instant.
C39_LastWriterWins ==
    Reconciled =>
        \A sid \in InBothStores :
            LET s == SheetMarker(sid)
                n == NotionMarker(sid)
                s_wins == s # NoTime /\ (n = NoTime \/ s > n)
                n_wins == n # NoTime /\ (s = NoTime \/ n > s)
            IN  /\ NotionUpserts(sid) # {} <=> s_wins
                /\ SheetUpdates(sid) # {} <=> n_wins
                /\ Cardinality(NotionUpserts(sid)) + Cardinality(SheetUpdates(sid)) <= 1
                /\ \A i \in NotionUpserts(sid) :
                        upserts_to_notion[i].props.val = by_sync(sheet_rows)[sid].val
                /\ \A i \in SheetUpdates(sid) :
                        updates_to_sheet[i].row.val = by_sync(notion_rows)[sid].val

\* a sync of two ids found in both stores: the row of id 1 is half a second
\* newer than its page and is sent to Notion, id 2 has equal markers and
\* nothing is queued for it
C39_Witness ==
    /\ spc = "done"
    /\ InBothStores = {1, 2}
    /\ SheetMarker(1) = NotionMarker(1) + 500
    /\ NotionUpserts(1) # {} /\ SheetUpdates(1) = {}
    /\ SheetMarker(2) = NotionMarker(2) /\ SheetMarker(2) # NoTime
    /\ NotionUpserts(2) = {} /\ SheetUpdates(2) = {}

\* the sync ids the stores held when this call read them
SnapshotIds ==
    {sheet_rows[i].sid : i \in DOMAIN sheet_rows}
        \cup {notion_rows[i].sid : i \in DOMAIN notion_rows}

\* the rows and the pages this call found without sync id
RowsWithoutId == {i \in DOMAIN sheet_rows : sheet_rows[i].sid = NoSid}
PagesWithoutId == {i \in DOMAIN notion_rows : notion_rows[i].sid = NoSid}

\* C32: when two_way_sync has returned, every row it found without sync id
\* holds, at its place, an id that no record held before, and a page created
\* by this call carries that id; every page it found without sync id holds
\* an id that no record held before, and a row appended by this call
\* carries that id; the ids given are pairwise different.
C32_MissingIdsGeneratedAndPersisted ==
    spc = "done" =>
        /\ \A i \in RowsWithoutId :
                /\ ws_rows[i].sid \notin SnapshotIds
                /\ \E j \in DOMAIN db_pages :
                        /\ j > Len(notion_rows)
                        /\ db_pages[j].sid = ws_rows[i].sid
                /\ \A k \in RowsWithoutId : ws_rows[k].sid = ws_rows[i].sid => k = i
        /\ \A i \in PagesWithoutId :
                /\ db_pages[i]._page_id = notion_rows[i]._page_id
                /\ db_pages[i].sid \notin SnapshotIds
                /\ \E j \in DOMAIN ws_rows :
                        /\ j > Len(sheet_rows)
                        /\ ws_rows[j].sid = db_pages[i].sid
                /\ \A k \in PagesWithoutId : db_pages[k].sid = db_pages[i].sid => k = i
                /\ \A k \in RowsWithoutId : ws_rows[k].sid # db_pages[i].sid

\* a call that found two rows and two pages, one of each without sync id,
\* has returned
C32_Witness ==
    /\ spc = "done"
    /\ Len(sheet_rows) = 2 /\ Len(notion_rows) = 2
    /\ Cardinality(RowsWithoutId) = 1
    /\ Cardinality(PagesWithoutId) = 1
    /\ Len(ws_rows) > Len(sheet_rows)
    /\ Len(db_pages) > Len(notion_rows)

\* the sync ids a store holds, one entry per record that has one
IdsOf(records) ==
    LET with == SelectSeq(records, LAMBDA r : r.sid # NoSid)
    IN  [i \in DOMAIN with |-> with[i].sid]

\* no sync id occurs twice in the sequence
Once(ids) == \A i, j \in DOMAIN ids : ids[i] = ids[j] => i = j

\* C40: after a two_way_sync that started from stores in which no sync id
\* occurred twice, every record has a sync id, the two stores hold the same
\* sync ids and each of them once; and the call that follows it, with no
\* change in between, queues no sheet update, no append and no upsert
\* (records are never removed, so a second call that read no sync id twice
\* follows a first call that read none twice).
C40_SyncConverges ==
    /\ (spc = "done" /\ Once(IdsOf(sheet_rows)) /\ Once(IdsOf(notion_rows)))
            => /\ Range(IdsOf(ws_rows)) = Range(IdsOf(db_pages))
               /\ Once(IdsOf(ws_rows)) /\ Once(IdsOf(db_pages))
               /\ Len(IdsOf(ws_rows)) = Len(ws_rows)
               /\ Len(IdsOf(db_pages)) = Len(db_pages)
    /\ (Len(synced) >= 2 /\ Once(IdsOf(sheet_rows)) /\ Once(IdsOf(notion_rows)))
            => synced[2] = [updated_sheet_rows |-> 0, appended_sheet_rows |-> 0,
                            upserted_notion_pages |-> 0]

====
